---- MODULE Spec2Model ----
(***************************************************************************)
(* IQDM-Analytics: the narrow-to-wide reshaper (iqdma/utilities.py,        *)
(* widen_data), the report statistics engine (iqdma/stats.py, IQDMStats)   *)
(* and the univariate control chart (iqdma/stats.py, ControlChart).        *)
(*                                                                         *)
(* Numbers.  Python floats are modelled as exact rationals n/d in lowest   *)
(* terms with d > 0, plus the IEEE value NaN: every comparison with NaN is *)
(* false and every arithmetic operation on NaN gives NaN.  Rounding of     *)
(* binary floating point is not modelled.                                  *)
(***************************************************************************)
EXTENDS Integers, Sequences, FiniteSets, TLC

VARIABLES
    cc,         \* the ControlChart object (its constructor arguments)
    cdata,      \* the last chart_data read from it, or None
    family,     \* which bounded family of tables the reshaper is run on
    data_dict,  \* the table csv_to_dict has read so far
    call,       \* the arguments of the widen_data call made, or None
    wide,       \* what that call returned (status "ok") or raised
    stats,      \* the IQDMStats object built from it, or None
    data_table,         \* MainFrame.data_table: the index description, or None
    control_chart_data, \* MainFrame.control_chart_data: the charts, or None
    selected,   \* the row of data_table that is selected, or None
    lookup,     \* the last direct request for a chart and its outcome, or None
    csv_file,   \* the rows csv.reader yields for the file on disk, header first
    loaded,     \* what csv_to_dict returned or raised for it, or None
    schema,     \* the parsed JSON of a template file, or None
    template,   \* the CSVParser built from it or the error raised, or None
    template_file,  \* the JSON text create_csv_template wrote, or None
    reloaded,   \* the CSVParser built from that text, or None
    templates_dir,  \* CSV_TEMPLATES_DIR: the content of every file name
    dir_before  \* CSV_TEMPLATES_DIR as create_default_parsers found it, or None

otherVars == <<lookup, csv_file, loaded, schema, template, template_file, reloaded,
              templates_dir, dir_before>>
chartVars == <<cc, cdata, data_table, control_chart_data, selected, otherVars>>
tableVars == <<family, data_dict, call, wide, stats>>
vars == <<cc, cdata, data_table, control_chart_data, selected, family, data_dict,
         call, wide, stats, otherVars>>

----------------------------------------------------------------------------
(* Rationals with NaN *)

NaN == [nan |-> TRUE, n |-> 0, d |-> 1]

Abs(i) == IF i < 0 THEN -i ELSE i

RECURSIVE Gcd(_, _)
Gcd(a, b) == IF b = 0 THEN a ELSE Gcd(b, a % b)

Rat(n, d) ==
    LET s == IF d < 0 THEN -1 ELSE 1
        g == Gcd(Abs(n), Abs(d))
    IN [nan |-> FALSE, n |-> (s * n) \div g, d |-> (s * d) \div g]

Num(i) == Rat(i, 1)

isnan(a) == a.nan

Add(a, b) == IF a.nan \/ b.nan THEN NaN ELSE Rat(a.n * b.d + b.n * a.d, a.d * b.d)
Sub(a, b) == IF a.nan \/ b.nan THEN NaN ELSE Rat(a.n * b.d - b.n * a.d, a.d * b.d)
Mul(a, b) == IF a.nan \/ b.nan THEN NaN ELSE Rat(a.n * b.n, a.d * b.d)
\* a / b for b # 0 (the code divides only by lengths > 0 and by scalar_d)
Div(a, b) == IF a.nan \/ b.nan THEN NaN ELSE Rat(a.n * b.d, a.d * b.n)
AbsR(a)   == IF a.nan THEN NaN ELSE Rat(Abs(a.n), a.d)

\* IEEE comparisons: false as soon as one side is NaN
Lt(a, b) == ~a.nan /\ ~b.nan /\ a.n * b.d < b.n * a.d
Gt(a, b) == Lt(b, a)
Le(a, b) == ~a.nan /\ ~b.nan /\ a.n * b.d <= b.n * a.d

\* Optional arguments: None, or a one-element tuple holding the value
None == <<>>
Some(v) == <<v>>

----------------------------------------------------------------------------
(* numpy helpers used by ControlChart *)

RECURSIVE SumSeq(_)
SumSeq(s) == IF s = <<>> THEN Num(0) ELSE Add(Head(s), SumSeq(Tail(s)))

\* np.mean: NaN for an empty array (0/0), NaN as soon as one element is NaN
np_mean(s) == IF Len(s) = 0 THEN NaN ELSE Div(SumSeq(s), Num(Len(s)))

\* np.diff: out[i] = a[i+1] - a[i]
np_diff(s) == [i \in 1..(IF Len(s) = 0 THEN 0 ELSE Len(s) - 1) |-> Sub(s[i + 1], s[i])]

np_absolute(s) == [i \in 1..Len(s) |-> AbsR(s[i])]

\* np.argwhere(mask): the 0-based positions where the mask holds, ascending
RECURSIVE argwhere(_, _)
argwhere(mask, i) ==
    IF i > Len(mask) THEN <<>>
    ELSE (IF mask[i] THEN <<i - 1>> ELSE <<>>) \o argwhere(mask, i + 1)

\* np.unique: the distinct elements in ascending order
RECURSIVE SortedSeqOf(_)
SortedSeqOf(S) ==
    IF S = {} THEN <<>>
    ELSE LET m == CHOOSE x \in S : \A z \in S : x <= z
         IN <<m>> \o SortedSeqOf(S \ {m})

np_unique(s) == SortedSeqOf({s[i] : i \in 1..Len(s)})

\* Python's a[lo:hi] (step 1): negative bounds count from the end, then
\* both are clipped to 0..len
PySlice(s, lo, hi) ==
    LET n == Len(s)
        clip(i) == IF i < 0 THEN (IF i + n < 0 THEN 0 ELSE i + n)
                   ELSE (IF i > n THEN n ELSE i)
        a == clip(lo)
        b == clip(hi)
    IN IF a < b THEN SubSeq(s, a + 1, b) ELSE <<>>

----------------------------------------------------------------------------
(* stats.py: ControlChart *)

\* self.scalar_d = 1.128
scalar_d == Rat(1128, 1000)

remove_nan(arr) == SelectSeq(arr, LAMBDA v : ~isnan(v))

\* nan_policy: "raise" is modelled by the value "raise" never being passed
\* (ControlChart passes "omit"); "propagate" returns NaN in place of the array
process_nan_policy(arr, nan_policy) ==
    LET arr_no_nan == remove_nan(arr)
    IN IF Len(arr_no_nan) # Len(arr) /\ nan_policy = "omit" THEN arr_no_nan ELSE arr

\* no difference taken as a range of zero
avg_moving_rangeZero(arr0, nan_policy) ==
    LET arr == process_nan_policy(arr0, nan_policy)
    IN IF Len(arr) < 2 THEN Num(0) ELSE np_mean(np_absolute(np_diff(arr)))

avg_moving_range(arr0, nan_policy) ==
    LET arr == process_nan_policy(arr0, nan_policy)
    IN IF Len(arr) = 0 THEN NaN ELSE np_mean(np_absolute(np_diff(arr)))

\* ControlChart.__init__ (x is never passed by this repository: 1..len(y))
ControlChart(y, std, ucl_limit, lcl_limit, range) ==
    [y |-> y, x |-> [i \in 1..Len(y) |-> Num(i)], std |-> std,
     ucl_limit |-> ucl_limit, lcl_limit |-> lcl_limit, range |-> range]

x_ranged(self) ==
    IF self.range = None THEN self.x
    ELSE PySlice(self.x, self.range[1] - 1, self.range[2])

y_rangedOffByOne(self) ==
    IF self.range = None THEN self.y
    ELSE PySlice(self.y, self.range[1], self.range[2])

y_ranged(self) ==
    IF self.range = None THEN self.y
    ELSE PySlice(self.y, self.range[1] - 1, self.range[2])

center_lineKeepsNaN(self) ==
    LET data == y_ranged(self)
    IN IF Len(data) # 0 THEN np_mean(data) ELSE NaN

center_line(self) ==
    LET data == remove_nan(y_ranged(self))
    IN IF Len(data) # 0 THEN np_mean(data) ELSE NaN

cc_avg_moving_range(self) == avg_moving_range(y_ranged(self), "omit")

sigma(self) == Div(cc_avg_moving_range(self), scalar_d)

control_limitsSwapped(self) ==
    LET cl  == center_line(self)
        sg  == sigma(self)
        ucl == Add(cl, Mul(self.std, sg))
        lcl == Sub(cl, Mul(self.std, sg))
    IN <<IF self.lcl_limit # None /\ Gt(lcl, self.lcl_limit[1])
            THEN self.lcl_limit[1] ELSE lcl,
         IF self.ucl_limit # None /\ Lt(ucl, self.ucl_limit[1])
            THEN self.ucl_limit[1] ELSE ucl>>

\* the clamps stopped at the centre line
control_limitsToCentre(self) ==
    LET cl  == center_line(self)
        sg  == sigma(self)
        ucl == Add(cl, Mul(self.std, sg))
        lcl == Sub(cl, Mul(self.std, sg))
    IN <<IF self.lcl_limit # None /\ Lt(lcl, self.lcl_limit[1])
            THEN (IF Gt(self.lcl_limit[1], cl) THEN cl ELSE self.lcl_limit[1])
            ELSE lcl,
         IF self.ucl_limit # None /\ Gt(ucl, self.ucl_limit[1])
            THEN (IF Lt(self.ucl_limit[1], cl) THEN cl ELSE self.ucl_limit[1])
            ELSE ucl>>

\* returns <<lcl, ucl>>
control_limits(self) ==
    LET cl  == center_line(self)
        sg  == sigma(self)
        ucl == Add(cl, Mul(self.std, sg))
        lcl == Sub(cl, Mul(self.std, sg))
    IN <<IF self.lcl_limit # None /\ Lt(lcl, self.lcl_limit[1])
            THEN self.lcl_limit[1] ELSE lcl,
         IF self.ucl_limit # None /\ Gt(ucl, self.ucl_limit[1])
            THEN self.ucl_limit[1] ELSE ucl>>

out_of_control_high(self) ==
    LET yr == y_ranged(self)
        ucl == control_limits(self)[2]
    IN argwhere([i \in 1..Len(yr) |-> Gt(yr[i], ucl)], 1)

out_of_control_low(self) ==
    LET yr == y_ranged(self)
        lcl == control_limits(self)[1]
    IN argwhere([i \in 1..Len(yr) |-> Lt(yr[i], lcl)], 1)

out_of_controlInclusive(self) ==
    LET yr == y_ranged(self)
        lim == control_limits(self)
    IN np_unique(argwhere([i \in 1..Len(yr) |-> ~Lt(yr[i], lim[2])], 1)
                 \o argwhere([i \in 1..Len(yr) |-> ~Gt(yr[i], lim[1])], 1))

out_of_control(self) ==
    np_unique(out_of_control_high(self) \o out_of_control_low(self))

chart_data(self) ==
    LET lim == control_limits(self)
    IN [x |-> x_ranged(self), y |-> y_ranged(self),
        out_of_control |-> out_of_control(self),
        center_line |-> center_line(self),
        lcl |-> lim[1], ucl |-> lim[2]]

----------------------------------------------------------------------------
(* Text.  A Python str is a sequence of one-character strings.  The        *)
(* characters that occur in the cells of the modelled tables:              *)

Ord(c) ==
    CASE c = " " -> 32 [] c = "%" -> 37 [] c = "&" -> 38 [] c = "+" -> 43
      [] c = "-" -> 45 [] c = "." -> 46 [] c = "/" -> 47
      [] c = "0" -> 48 [] c = "1" -> 49 [] c = "2" -> 50 [] c = "3" -> 51
      [] c = "4" -> 52 [] c = "5" -> 53 [] c = "6" -> 54 [] c = "7" -> 55
      [] c = "8" -> 56 [] c = "9" -> 57 [] c = ":" -> 58
      [] c = "A" -> 65 [] c = "N" -> 78
      [] c = "a" -> 97 [] c = "b" -> 98 [] c = "d" -> 100 [] c = "e" -> 101
      [] c = "i" -> 105 [] c = "n" -> 110 [] c = "o" -> 111 [] c = "t" -> 116
      [] c = "u" -> 117 [] c = "x" -> 120

IsDigit(c) == Ord(c) >= 48 /\ Ord(c) <= 57

\* s < t for Python str: by code point, a proper prefix first
RECURSIVE LexLess(_, _)
LexLess(s, t) ==
    IF t = <<>> THEN FALSE
    ELSE IF s = <<>> THEN TRUE
    ELSE IF Ord(Head(s)) # Ord(Head(t)) THEN Ord(Head(s)) < Ord(Head(t))
    ELSE LexLess(Tail(s), Tail(t))

RECURSIVE Join(_, _)
Join(sep, parts) ==
    IF parts = <<>> THEN <<>>
    ELSE IF Len(parts) = 1 THEN parts[1]
    ELSE parts[1] \o sep \o Join(sep, Tail(parts))

\* decimal digits of a natural number, and back
RECURSIVE IntStr(_)
IntStr(k) ==
    LET digit == SubSeq(<<"0","1","2","3","4","5","6","7","8","9">>,
                        (k % 10) + 1, (k % 10) + 1)
    IN IF k < 10 THEN digit ELSE IntStr(k \div 10) \o digit

RECURSIVE DigitsVal(_)
DigitsVal(s) ==
    IF s = <<>> THEN 0
    ELSE 10 * DigitsVal(SubSeq(s, 1, Len(s) - 1)) + (Ord(s[Len(s)]) - 48)

RECURSIVE Pow10(_)
Pow10(k) == IF k = 0 THEN 1 ELSE 10 * Pow10(k - 1)

RECURSIVE Strip(_)
Strip(s) ==
    IF s # <<>> /\ Head(s) = " " THEN Strip(Tail(s))
    ELSE IF s # <<>> /\ s[Len(s)] = " " THEN Strip(SubSeq(s, 1, Len(s) - 1))
    ELSE s

\* float(s) for decimal literals: surrounding blanks, an optional sign,
\* digits with at most one point and at least one digit; every other text
\* of the modelled alphabet raises ValueError (ok = FALSE).  Exponents,
\* "inf", "nan" and "_" are outside the alphabet of the modelled cells.
\* the digits before and after the first point of an unsigned literal
DecimalParts(u) ==
    LET dots == {i \in 1..Len(u) : u[i] = "."}
        p    == IF dots = {} THEN Len(u) + 1
                ELSE CHOOSE i \in dots : \A j \in dots : i <= j
    IN [ip |-> SubSeq(u, 1, p - 1), fp |-> SubSeq(u, p + 1, Len(u))]

DecimalValue(neg, parts) ==
    LET ok  == /\ \A i \in 1..Len(parts.ip) : IsDigit(parts.ip[i])
               /\ \A i \in 1..Len(parts.fp) : IsDigit(parts.fp[i])
               /\ Len(parts.ip) + Len(parts.fp) >= 1
        mag == Rat(DigitsVal(parts.ip) * Pow10(Len(parts.fp)) + DigitsVal(parts.fp),
                   Pow10(Len(parts.fp)))
    IN IF ok THEN [ok |-> TRUE, v |-> IF neg THEN Sub(Num(0), mag) ELSE mag]
       ELSE [ok |-> FALSE, v |-> NaN]

StrippedFloat(b) ==
    DecimalValue(b # <<>> /\ Head(b) = "-",
                 DecimalParts(IF b # <<>> /\ Head(b) \in {"-", "+"} THEN Tail(b) ELSE b))

py_float(s) == StrippedFloat(Strip(s))

\* is_numeric: float(val) does not raise ValueError
is_numeric(val) == py_float(val).ok

\* str(x) for a float with a finite decimal expansion: "3.0", "2.5", "-1.25"
RECURSIVE FracDigits(_, _)
FracDigits(rem, d) ==
    IF rem = 0 THEN <<>>
    ELSE IntStr((rem * 10) \div d) \o FracDigits((rem * 10) % d, d)

float_str(r) ==
    IF r.nan THEN <<"n", "a", "n">>
    ELSE LET m  == Abs(r.n)
             fr == FracDigits(m % r.d, r.d)
         IN (IF r.n < 0 THEN <<"-">> ELSE <<>>) \o IntStr(m \div r.d) \o <<".">>
               \o (IF fr = <<>> THEN <<"0">> ELSE fr)

----------------------------------------------------------------------------
(* utilities.py: get_datetime and get_sorted_indices.  A datetime is the   *)
(* number of seconds since 1970-01-01 00:00:00 (naive, UTC taken as the    *)
(* local zone); the modelled calendar is January 1970.                     *)

DT(t)  == [dt |-> t]
Str(s) == [str |-> s]
NegInf == [neginf |-> TRUE]

IsDT(v)  == "dt" \in DOMAIN v
IsStr(v) == "str" \in DOMAIN v

SecondsPerDay == 86400

\* dateutil.parser.parse on the calendar dates of the model, "1970-01-DD";
\* the other texts of the modelled cells ("None", "", "x") are no dates
date_parser(s) ==
    LET shaped == /\ Len(s) = 10
                  /\ s[5] = "-" /\ s[8] = "-"
                  /\ \A i \in {1, 2, 3, 4, 6, 7, 9, 10} : IsDigit(s[i])
        day    == DigitsVal(SubSeq(s, 9, 10))
        ok     == /\ shaped
                  /\ DigitsVal(SubSeq(s, 1, 4)) = 1970
                  /\ DigitsVal(SubSeq(s, 6, 7)) = 1
                  /\ day >= 1 /\ day <= 31
    IN IF ok THEN [ok |-> TRUE, v |-> DT(Num((day - 1) * SecondsPerDay))]
       ELSE [ok |-> FALSE, v |-> Str(s)]

\* get_datetime: float(date) -> utcfromtimestamp, else date_parser, else the
\* text itself
DatetimeOf(f, date) == IF f.ok THEN DT(f.v) ELSE date_parser(date).v

get_datetime(date) == DatetimeOf(py_float(date), date)

Pad(k, w) ==
    LET d == IntStr(k)
    IN [i \in 1..(w - Len(d)) |-> "0"] \o d

\* str(datetime): "YYYY-MM-DD HH:MM:SS", then ".ffffff" when microsecond # 0
str_datetime(v) ==
    LET t   == v.dt.n \div v.dt.d
        us  == ((v.dt.n % v.dt.d) * 1000000) \div v.dt.d
        sec == t % SecondsPerDay
    IN <<"1","9","7","0","-","0","1","-">> \o Pad(1 + (t \div SecondsPerDay), 2)
          \o <<" ">> \o Pad(sec \div 3600, 2) \o <<":">> \o Pad((sec % 3600) \div 60, 2)
          \o <<":">> \o Pad(sec % 60, 2)
          \o (IF us = 0 THEN <<>> ELSE <<".">> \o Pad(us, 6))

py_str(v) == IF IsDT(v) THEN str_datetime(v) ELSE v.str

TypeClass(v) == IF IsDT(v) THEN "datetime" ELSE IF IsStr(v) THEN "str" ELSE "float"

\* a < b between two values of one type
KeyLess(a, b) ==
    IF IsDT(a) THEN Lt(a.dt, b.dt)
    ELSE IF IsStr(a) THEN LexLess(a.str, b.str)
    ELSE FALSE

\* sorted() raises TypeError exactly when it compares two values of
\* different types, which every list of two or more mixed values makes it do
Sortable(l) == \A i, j \in 1..Len(l) : TypeClass(l[i]) = TypeClass(l[j])

\* the stable sort of sorted(enumerate(l), key = the value): positions 1..Len(l)
RECURSIVE InsertIdx(_, _, _)
InsertIdx(sorted, i, l) ==
    IF sorted = <<>> THEN <<i>>
    ELSE IF KeyLess(l[i], l[Head(sorted)]) THEN <<i>> \o sorted
    ELSE <<Head(sorted)>> \o InsertIdx(Tail(sorted), i, l)

RECURSIVE SortIdxUpTo(_, _)
SortIdxUpTo(l, k) ==
    IF k = 0 THEN <<>> ELSE InsertIdx(SortIdxUpTo(l, k - 1), k, l)

SortIdx(l) == SortIdxUpTo(l, Len(l))

NoneText == <<"N", "o", "n", "e">>

get_sorted_indicesUnsorted(some_list) == [i \in 1..Len(some_list) |-> i]

get_sorted_indices(some_list) ==
    IF Sortable(some_list) THEN SortIdx(some_list)
    ELSE LET temp_data == [i \in 1..Len(some_list) |->
                              IF some_list[i] = Str(NoneText) THEN NegInf
                              ELSE some_list[i]]
         IN IF Sortable(temp_data) THEN SortIdx(temp_data)
            ELSE SortIdx([i \in 1..Len(some_list) |-> Str(py_str(some_list[i]))])

----------------------------------------------------------------------------
(* importer.py / utilities.py: the reshaper.                               *)
(*                                                                         *)
(* data_dict is modelled row-wise: a table is [rows, has_fc] where a row   *)
(* holds the cells of the uid columns, of the criteria columns, of the     *)
(* date column, of the charting column and of "report_file_creation"       *)
(* (read only when has_fc says the table has that column).  A float cell   *)
(* is a rational record, a str cell is Str(text).                          *)

Sep == <<" ", "&", "&", " ">>

Policies == {"first", "last", "min", "mean", "max"}

\* ReportImporter.remove_non_numeric: re.sub(r"[^\d.]+", "", val), float or NaN
remove_non_numeric(val) ==
    py_float(SelectSeq(val, LAMBDA c : IsDigit(c) \/ c = ".")).v

\* a coercion that turns a failed conversion into zero
apply_dtypeZero(v, dtype) ==
    IF ~dtype THEN Str(v)
    ELSE IF isnan(remove_non_numeric(v)) THEN Num(0)
    ELSE remove_non_numeric(v)

\* apply_dtype(v, dtype) with dtype = remove_non_numeric, or dtype = None
apply_dtype(v, dtype) == IF dtype THEN remove_non_numeric(v) ELSE Str(v)

RECURSIVE Distinct(_)
Distinct(s) ==
    IF s = <<>> THEN <<>>
    ELSE LET rest == Distinct(SubSeq(s, 1, Len(s) - 1))
             last == s[Len(s)]
         IN IF \E i \in 1..Len(rest) : rest[i] = last THEN rest
            ELSE Append(rest, last)

\* uid = " && ".join(str(cell) for the uid columns)
RowUid(r) == Join(Sep, r.uid)

\* params joined from the cells as they are spelled
RowParamsRaw(r) == Join(Sep, r.crit)

\* params: numeric criteria cells become str(float(cell)) before the join
RowParams(r) ==
    Join(Sep, [i \in 1..Len(r.crit) |->
                  IF is_numeric(r.crit[i]) THEN float_str(py_float(r.crit[i]).v)
                  ELSE r.crit[i]])

\* date = 0 if date_col is None else the date cell
RowDate(r, a) == IF a.date_col THEN r.date ELSE <<"0">>

\* the timestamp appended for source row i: float(cell), the cell itself when
\* that raises ValueError, or str(datetime.now()) when the table has no such
\* column (clock[i] is the reading of the clock at row i)
RowTimestamp(table, clock, i) ==
    IF table.has_fc
    THEN LET f == py_float(table.rows[i].fc)
         IN IF f.ok THEN f.v ELSE Str(table.rows[i].fc)
    ELSE [tick |-> clock[i]]

IsFloat(v) == "nan" \in DOMAIN v
IsTick(v)  == "tick" \in DOMAIN v

\* np.argmin / np.argmax over a list: floats compare as numbers; a list that
\* holds a str becomes an array of str (floats through str()) and compares
\* as text.  Returns the first position (1-based) of the extreme value.
TsLess(a, b) ==
    IF IsTick(a) THEN a.tick < b.tick
    ELSE IF IsFloat(a) THEN Lt(a, b)
    ELSE LexLess(a.str, b.str)

TsArray(ts) ==
    IF \A i \in 1..Len(ts) : IsFloat(ts[i]) \/ IsTick(ts[i]) THEN ts
    ELSE [i \in 1..Len(ts) |-> IF IsFloat(ts[i]) THEN Str(float_str(ts[i])) ELSE ts[i]]

np_argmin(ts0) ==
    LET ts == TsArray(ts0)
    IN CHOOSE i \in 1..Len(ts) :
          /\ \A j \in 1..Len(ts) : ~TsLess(ts[j], ts[i])
          /\ \A j \in 1..(i - 1) : TsLess(ts[i], ts[j])

np_argmax(ts0) ==
    LET ts == TsArray(ts0)
    IN CHOOSE i \in 1..Len(ts) :
          /\ \A j \in 1..Len(ts) : ~TsLess(ts[i], ts[j])
          /\ \A j \in 1..(i - 1) : TsLess(ts[j], ts[i])

\* np.min / np.max / np.mean of the coerced values: NaN as soon as one value
\* is NaN; on str values (dtype None) the reduction raises, which the
\* except clause turns into NaN
np_reduce(policy, values) ==
    IF \E i \in 1..Len(values) : ~IsFloat(values[i]) THEN NaN
    ELSE IF \E i \in 1..Len(values) : isnan(values[i]) THEN NaN
    ELSE IF policy = "mean" THEN np_mean(values)
    ELSE IF policy = "min"
         THEN values[CHOOSE i \in 1..Len(values) :
                        \A j \in 1..Len(values) : ~Lt(values[j], values[i])]
    ELSE values[CHOOSE i \in 1..Len(values) :
                   \A j \in 1..Len(values) : ~Gt(values[j], values[i])]

resolveLastIsFirst(values, stamps, a) == values[1]

\* lines 424-453: the cell emitted for the values that collide on one
\* (uid, date, param) triple
resolve(values, stamps, a) ==
    IF Len(values) <= 1 THEN values[1]
    ELSE IF a.policy \in {"first", "last"}
         THEN IF a.fc
              THEN values[IF a.policy = "first" THEN np_argmin(stamps)
                          ELSE np_argmax(stamps)]
              ELSE IF a.policy = "last" THEN values[Len(values)] ELSE values[1]
         ELSE np_reduce(a.policy, values)

UidText  == <<"u", "i", "d">>
DateText == <<"d", "a", "t", "e">>

\* sorted(list(set(names))) for str
RECURSIVE SortedTexts(_)
SortedTexts(S) ==
    IF S = {} THEN <<>>
    ELSE LET m == CHOOSE x \in S : \A z \in S : ~LexLess(z, x)
         IN <<m>> \o SortedTexts(S \ {m})

RECURSIVE Flatten(_)
Flatten(ss) == IF ss = <<>> THEN <<>> ELSE Head(ss) \o Flatten(Tail(ss))

Failed(error) ==
    [status |-> error, uid |-> <<>>, date |-> None, x_variables |-> <<>>,
     cols |-> <<>>, fc_key |-> FALSE]

\* widen_data(data_dict, uid_columns, x_data_cols, y_data_col, ...): a holds
\* the keyword arguments (date_col, fc = date_col_file_creation and dtype as
\* given / not given), clock the readings of datetime.now(), one per row.

\* lines 362-391, the loop over the source rows: what row i appends to
\* data[uid][date][params] and to timestamps[uid][date][params]
RowEntry(table, a, clock, i) ==
    [uid       |-> RowUid(table.rows[i]),
     date      |-> RowDate(table.rows[i], a),
     params    |-> RowParams(table.rows[i]),
     y         |-> table.rows[i].y,
     timestamp |-> IF a.fc THEN RowTimestamp(table, clock, i) ELSE None]

Entries(table, a, clock) ==
    [i \in 1..Len(table.rows) |-> RowEntry(table, a, clock, i)]

\* one group per source row: no grouping at all
GroupsPerRow(entries) ==
    [i \in 1..Len(entries) |-> <<entries[i].uid, entries[i].date>>]

\* data.items() x date_data.items(): the (uid, date) pairs in insertion order
Groups(entries) ==
    LET uids == Distinct([i \in 1..Len(entries) |-> entries[i].uid])
        datesOf(u) ==
            LET eu == SelectSeq(entries, LAMBDA e : e.uid = u)
            IN Distinct([k \in 1..Len(eu) |-> eu[k].date])
    IN Flatten([k \in 1..Len(uids) |->
                  [j \in 1..Len(datesOf(uids[k])) |->
                      <<uids[k], datesOf(uids[k])[j]>>]])

\* the names in the order the rows bring them, not sorted
x_variablesInsertionOrder(entries) ==
    SelectSeq(Distinct([i \in 1..Len(entries) |-> entries[i].params]),
              LAMBDA x : x \notin {UidText, DateText})

\* sorted(x_variables) without set(): one name per source row
x_variablesNoSet(entries) ==
    LET l == [i \in 1..Len(entries) |-> Str(entries[i].params)]
    IN [k \in 1..Len(l) |-> l[SortIdx(l)[k]].str]

\* lines 393-399
x_variables(entries) ==
    SortedTexts({entries[i].params : i \in 1..Len(entries)} \ {UidText, DateText})

\* data[uid][date].get(x): the entries appended under one triple, in row order
param_data(entries, g, x) ==
    SelectSeq(entries, LAMBDA e : e.uid = g[1] /\ e.date = g[2] /\ e.params = x)

\* lines 412-453: the cell of column x in the output row of group g
Cell(es, a) ==
    LET raw == IF es = <<>> THEN << <<>> >> ELSE [k \in 1..Len(es) |-> es[k].y]
    IN resolve([k \in 1..Len(raw) |-> apply_dtype(raw[k], a.dtype)],
               [k \in 1..Len(es) |-> es[k].timestamp], a)

\* lines 405-461: wide_data before the rows are sorted
Wide(entries, groups, xs, a) ==
    LET partial_cols == IF a.remove_partial_columns
                        THEN {x \in {xs[c] : c \in 1..Len(xs)} :
                                 \E k \in 1..Len(groups) :
                                     param_data(entries, groups[k], x) = <<>>}
                        ELSE {}
        xv == SelectSeq(xs, LAMBDA x : x \notin partial_cols)
    IN [uid  |-> [k \in 1..Len(groups) |-> groups[k][1]],
        date |-> [k \in 1..Len(groups) |-> groups[k][2]],
        x_variables |-> xv,
        cols |-> [c \in 1..Len(xv) |->
                    [k \in 1..Len(groups) |->
                        Cell(param_data(entries, groups[k], xv[c]), a)]]]

wide_data(entries, a) == Wide(entries, Groups(entries), x_variables(entries), a)

\* lines 466-470: wide_data[date_col_file_creation] is created empty and
\* never filled, so the backup loop runs over no rows and the dates are
\* those of the date column alone
sorted_indices(date) ==
    get_sorted_indices([k \in 1..Len(date) |-> get_datetime(date[k])])

\* the permutation applied to the date column alone
final_dataDatesOnly(w, si) ==
    [status |-> "ok",
     uid  |-> w.uid,
     date |-> Some([r \in 1..Len(si) |-> w.date[si[r]]]),
     x_variables |-> w.x_variables,
     cols |-> w.cols,
     fc_key |-> FALSE]

\* lines 471-481
final_data(w, si) ==
    [status |-> "ok",
     uid  |-> [r \in 1..Len(si) |-> w.uid[si[r]]],
     date |-> Some([r \in 1..Len(si) |-> w.date[si[r]]]),
     x_variables |-> w.x_variables,
     cols |-> [c \in 1..Len(w.x_variables) |->
                 [r \in 1..Len(si) |-> w.cols[c][si[r]]]],
     fc_key |-> FALSE]

\* the returns of widen_data without the check of multi_val_policy
ReturnedUnvalidated(w, a) ==
    IF ~a.date_col
    THEN [status |-> "ok", uid |-> w.uid, date |-> None,
          x_variables |-> w.x_variables, cols |-> w.cols, fc_key |-> a.fc]
    ELSE IF ~a.sort_by_date
         THEN [status |-> "ok", uid |-> w.uid, date |-> Some(w.date),
               x_variables |-> w.x_variables, cols |-> w.cols, fc_key |-> a.fc]
    ELSE IF ~a.fc THEN Failed("KeyError")
    ELSE IF w.x_variables = <<>> THEN Failed("IndexError")
    ELSE final_data(w, sorted_indices(w.date))

\* The result lists the columns of the returned dict: "uid", "date" (None
\* once popped), one column per x_variables entry, and fc_key tells whether
\* the (empty) date_col_file_creation key is still in it.
Returned(w, a) ==
    IF a.policy \notin Policies THEN Failed("NotImplementedError")
    ELSE IF ~a.date_col
         THEN [status |-> "ok", uid |-> w.uid, date |-> None,
               x_variables |-> w.x_variables, cols |-> w.cols, fc_key |-> a.fc]
    ELSE IF ~a.sort_by_date
         THEN [status |-> "ok", uid |-> w.uid, date |-> Some(w.date),
               x_variables |-> w.x_variables, cols |-> w.cols, fc_key |-> a.fc]
    ELSE IF ~a.fc THEN Failed("KeyError")
    ELSE IF w.x_variables = <<>> THEN Failed("IndexError")
    ELSE final_data(w, sorted_indices(w.date))

widen_data(table, a, clock) == Returned(wide_data(Entries(table, a, clock), a), a)

\* the keyword arguments ReportImporter.__call__ passes
ImporterArgs(policy) ==
    [policy |-> policy, date_col |-> TRUE, fc |-> TRUE, dtype |-> TRUE,
     sort_by_date |-> TRUE, remove_partial_columns |-> FALSE]

\* IQDMStats.__init__ after a successful import: import_data / dict_to_array
\* turn the variable columns into the matrix (one row per observation)
IQDMStats(w, policy) ==
    [multi_val_policy |-> policy,
     uid_data  |-> w.uid,
     x_axis    |-> w.date[1],
     var_names |-> w.x_variables,
     data      |-> [r \in 1..Len(w.uid) |->
                      [c \in 1..Len(w.x_variables) |-> w.cols[c][r]]]]

----------------------------------------------------------------------------
(* IQDMStats: the index description and the charts of every variable.      *)
(* Python keeps an int and a str apart as dict keys and as table cells:    *)
(* an int is PyInt(i), a str is Str(text).                                 *)

PyInt(i) == [int |-> i]
IsInt(v) == "int" \in DOMAIN v

AllText == <<"A", "l", "l">>
NAText  == <<"N", "/", "A">>

\* str.split(sep): the pieces between the occurrences of sep, left to right
RECURSIVE Split(_, _)
Split(s, sep) ==
    LET hits == {p \in 1..(Len(s) - Len(sep) + 1) :
                    SubSeq(s, p, p + Len(sep) - 1) = sep}
    IN IF hits = {} THEN <<s>>
       ELSE LET p == CHOOSE q \in hits : \A r \in hits : q <= r
            IN <<SubSeq(s, 1, p - 1)>>
                  \o Split(SubSeq(s, p + Len(sep), Len(s)), sep)

\* self.data[:, index] for a 0-based index
Column(self, index) == [r \in 1..Len(self.data) |-> self.data[r][index + 1]]

\* len(self.data[:, i][~np.isnan(self.data[:, i])])
ReportCount(self, i) == Len(remove_nan(Column(self, i)))

\* what the loop over var_names appends to criteria column j
CriteriaEntries(self, j) ==
    LET named == SelectSeq(self.var_names, LAMBDA v : Len(Split(v, Sep)) >= j)
    IN [k \in 1..Len(named) |-> Str(Split(named[k], Sep)[j])]

ColumnIndex(criteria_columns, key) ==
    CHOOSE j \in 1..Len(criteria_columns) : criteria_columns[j] = key

\* the description without its summary row
get_index_descriptionNoSummary(self, criteria_columns) ==
    LET n == Len(self.var_names)
    IN [status  |-> "ok",
        columns |-> <<"Index", "Reports">> \o criteria_columns,
        table   |->
           [key \in {"Index", "Reports"}
                      \cup {criteria_columns[j] : j \in 1..Len(criteria_columns)} |->
               IF key = "Index" THEN [i \in 1..n |-> PyInt(i - 1)]
               ELSE IF key = "Reports"
               THEN [i \in 1..n |-> PyInt(ReportCount(self, i - 1))]
               ELSE CriteriaEntries(self, ColumnIndex(criteria_columns, key))]]

\* IQDMStats.get_index_description: (table, columns), or the error raised
\* (criteria_columns[j] for a piece that has no column; i + 1 after a loop
\* that never ran)
get_index_description(self, criteria_columns) ==
    LET n == Len(self.var_names)
    IN IF \E i \in 1..n : Len(Split(self.var_names[i], Sep)) > Len(criteria_columns)
       THEN [status |-> "IndexError"]
       ELSE IF n = 0 THEN [status |-> "UnboundLocalError"]
       ELSE [status  |-> "ok",
             columns |-> <<"Index", "Reports">> \o criteria_columns,
             table   |->
                [key \in {"Index", "Reports"}
                           \cup {criteria_columns[j] : j \in 1..Len(criteria_columns)} |->
                    IF key = "Index" THEN [i \in 1..(n + 1) |-> PyInt(i - 1)]
                    ELSE IF key = "Reports"
                    THEN Append([i \in 1..n |-> PyInt(ReportCount(self, i - 1))],
                                Str(AllText))
                    ELSE Append(CriteriaEntries(self, ColumnIndex(criteria_columns, key)),
                                Str(NAText))]]

\* self.data.shape[1]
variable_count(self) == Len(self.var_names)

\* the lookup with indices counted from 1
get_index_by_var_nameOneBased(self, var_name) ==
    IF IsStr(var_name) /\ \E i \in 1..Len(self.var_names) : self.var_names[i] = var_name.str
    THEN Some((CHOOSE i \in 1..Len(self.var_names) :
                  /\ self.var_names[i] = var_name.str
                  /\ \A k \in 1..(i - 1) : self.var_names[k] # var_name.str) - 1)
    ELSE IF IsInt(var_name) /\ var_name.int \in 1..variable_count(self)
    THEN Some(var_name.int - 1)
    ELSE None

\* IQDMStats.get_index_by_var_name: Some(0-based index), None for AttributeError
get_index_by_var_name(self, var_name) ==
    IF IsStr(var_name) /\ \E i \in 1..Len(self.var_names) : self.var_names[i] = var_name.str
    THEN Some((CHOOSE i \in 1..Len(self.var_names) :
                  /\ self.var_names[i] = var_name.str
                  /\ \A k \in 1..(i - 1) : self.var_names[k] # var_name.str) - 1)
    ELSE IF IsInt(var_name) /\ var_name.int \in 0..(variable_count(self) - 1)
    THEN Some(var_name.int)
    ELSE None

\* np.nanmax / np.nanmin / np.nanmean of one matrix row: NaN when every
\* entry is NaN
nanmax(row) ==
    IF remove_nan(row) = <<>> THEN NaN
    ELSE CHOOSE m \in {row[i] : i \in 1..Len(row)} :
            ~isnan(m) /\ \A i \in 1..Len(row) : isnan(row[i]) \/ Le(row[i], m)

nanmin(row) ==
    IF remove_nan(row) = <<>> THEN NaN
    ELSE CHOOSE m \in {row[i] : i \in 1..Len(row)} :
            ~isnan(m) /\ \A i \in 1..Len(row) : isnan(row[i]) \/ Le(m, row[i])

nanmean(row) == np_mean(remove_nan(row))

\* getattr(np, f"nan{func}")(self.data, 1)
np_nan(func, data) ==
    [r \in 1..Len(data) |->
        IF func = "max" THEN nanmax(data[r])
        ELSE IF func = "min" THEN nanmin(data[r])
        ELSE nanmean(data[r])]

\* "%s" % var_name for a str or an int
ValueText(var_name) ==
    IF IsStr(var_name) THEN var_name.str
    ELSE IF var_name.int < 0 THEN <<"-">> \o IntStr(-var_name.int)
    ELSE IntStr(var_name.int)

\* the AttributeError of get_index_by_var_name: the message is the three
\* parts of "%s is not a valid var_name\n%s"
AttributeError(self, var_name) ==
    [status |-> "AttributeError",
     msg    |-> <<ValueText(var_name), " is not a valid var_name\n",
                  Join(<<",">>, self.var_names)>>]

\* the chart of one column, or the error of an unknown var_name
ColumnChart(self, var_name, found, kw) ==
    IF found = None THEN AttributeError(self, var_name)
    ELSE ControlChart(Column(self, found[1]), kw.std, kw.ucl_limit, kw.lcl_limit,
                      kw.range)

\* "All" with the mean wherever the policy is no reduction
univariate_control_chartFirstIsMean(self, var_name, kw) ==
    IF var_name = Str(AllText)
    THEN ControlChart(np_nan(IF self.multi_val_policy \notin {"min", "mean", "max"}
                             THEN "mean" ELSE self.multi_val_policy, self.data),
                      kw.std, kw.ucl_limit, kw.lcl_limit, kw.range)
    ELSE ColumnChart(self, var_name, get_index_by_var_name(self, var_name), kw)

\* IQDMStats.univariate_control_chart
univariate_control_chart(self, var_name, kw) ==
    IF var_name = Str(AllText)
    THEN ControlChart(np_nan(IF self.multi_val_policy \notin {"min", "mean", "max"}
                             THEN "max" ELSE self.multi_val_policy, self.data),
                      kw.std, kw.ucl_limit, kw.lcl_limit, kw.range)
    ELSE ColumnChart(self, var_name, get_index_by_var_name(self, var_name), kw)

\* a Python dict as the list of its (key, value) items: d[k] = v
DictSet(d, k, v) ==
    IF \E i \in 1..Len(d) : d[i][1] = k
    THEN [i \in 1..Len(d) |-> IF d[i][1] = k THEN <<k, v>> ELSE d[i]]
    ELSE Append(d, <<k, v>>)

DictKeys(d) == {d[i][1] : i \in 1..Len(d)}

DictGet(d, k) == d[CHOOSE i \in 1..Len(d) : d[i][1] = k][2]

\* d[k2] = d[k1]
DictAlias(d, k2, k1) == DictSet(d, k2, DictGet(d, k1))

\* the dict after the first n rounds of the loop over var_names
RECURSIVE ChartsUpTo(_, _, _)
ChartsUpTo(self, kw, n) ==
    IF n = 0 THEN <<>>
    ELSE DictAlias(DictSet(ChartsUpTo(self, kw, n - 1), Str(self.var_names[n]),
                           univariate_control_chart(self, Str(self.var_names[n]), kw)),
                   PyInt(n - 1), Str(self.var_names[n]))

\* the charts with the aggregate under index 0 and variable i under i + 1
univariate_control_chartsAllFirst(self, kw) ==
    [k \in 1..(2 * Len(self.var_names) + 2) |->
        IF k = 1 THEN <<Str(AllText), univariate_control_chart(self, Str(AllText), kw)>>
        ELSE IF k = 2 THEN <<PyInt(0), univariate_control_chart(self, Str(AllText), kw)>>
        ELSE IF k % 2 = 1
        THEN <<Str(self.var_names[(k - 1) \div 2]),
               univariate_control_chart(self, Str(self.var_names[(k - 1) \div 2]), kw)>>
        ELSE <<PyInt((k - 2) \div 2),
               univariate_control_chart(self, Str(self.var_names[(k - 2) \div 2]), kw)>>]

\* IQDMStats.univariate_control_charts
univariate_control_charts(self, kw) ==
    DictAlias(DictSet(ChartsUpTo(self, kw, Len(self.var_names)), Str(AllText),
                      univariate_control_chart(self, Str(AllText), kw)),
              PyInt(Len(self.var_names)), Str(AllText))

----------------------------------------------------------------------------
(* The control-chart specification: a ControlChart is constructed over one *)
(* series, its properties are read, and the window is changed (main.py     *)
(* builds a new chart on every change of the range spinners).              *)

MaxLen == 3
MaxRange == 4

ChartVals == {NaN, Num(1), Num(3), Num(100)}

\* the series of the documented examples
ExampleSeries == <<Num(1), Num(2), Num(3), Num(4), Num(100)>>

SeriesSet == UNION {[1..n -> ChartVals] : n \in 0..MaxLen} \cup {ExampleSeries}

StdVals == {Num(0), Num(3)}
UclLimits == {None, Some(Num(50)), Some(Num(3))}
LclLimits == {None, Some(Num(0)), Some(Num(50))}
RangeSet == {None} \cup ((0..MaxRange) \X (0..MaxRange))

\* the files CSV_TEMPLATES_DIR may hold: two of the built-in parsers, a
\* template of the resources directory, and a file of the user
FileNames == {"Delta4.json", "VeriSoft.json", "Custom.json", "mine.json"}

\* nothing has been requested, read or loaded besides the chart and the table
InitOther ==
    /\ lookup = None
    /\ csv_file = <<>> /\ loaded = None
    /\ schema = None /\ template = None
    /\ template_file = None /\ reloaded = None
    /\ templates_dir = [name \in FileNames |-> "absent"] /\ dir_before = None

InitChart ==
    /\ \E y \in SeriesSet, std \in StdVals, u \in UclLimits, l \in LclLimits,
          r \in RangeSet : cc = ControlChart(y, std, u, l, r)
    /\ cdata = None
    /\ data_table = None /\ control_chart_data = None /\ selected = None
    /\ InitOther
    /\ family = "none"
    /\ data_dict = [rows |-> <<>>, has_fc |-> FALSE]
    /\ call = None /\ wide = None /\ stats = None

\* reading ControlChart.chart_data
ReadChartData ==
    /\ cdata = None
    /\ cdata' = Some(chart_data(cc))
    /\ UNCHANGED <<cc, data_table, control_chart_data, selected, tableVars, otherVars>>

\* MainFrame.on_range_spin -> update_control_chart_data: one of the two range
\* spinners changed, and a new chart is built over the same series with the
\* spinners' values
on_range_spin ==
    /\ cdata # None
    /\ cc.range # None
    /\ \E r \in RangeSet \ {None} :
          /\ r # cc.range
          /\ r[1] = cc.range[1] \/ r[2] = cc.range[2]
          /\ cc' = ControlChart(cc.y, cc.std, cc.ucl_limit, cc.lcl_limit, r)
    /\ cdata' = None
    /\ UNCHANGED <<data_table, control_chart_data, selected, tableVars, otherVars>>

NextChart == ReadChartData \/ on_range_spin

SpecChart == InitChart /\ [][NextChart]_vars

----------------------------------------------------------------------------
(* The reshaper specifications: csv_to_dict reads the rows of a file, then *)
(* IQDMStats imports the table (ReportImporter.__call__ -> widen_data), or *)
(* widen_data is called directly with other keyword arguments.             *)

MaxRows == 3

Cell_a == <<"a">>
Cell_b == <<"b">>
Cell_2 == <<"2">>
Cell_3 == <<"3">>
Cell_9 == <<"9">>
Cell_Jan2 == <<"1", "9", "7", "0", "-", "0", "1", "-", "0", "2">>
Cell_4pct == <<"4", "%">>
Cell_x == <<"x">>
Cell_1 == <<"1">>
Cell_10 == <<"1", "0">>
Cell_5 == <<"5">>
Cell_5p0 == <<"5", ".", "0">>

MkRow(u, c, d, y, f) == [uid |-> <<u>>, crit |-> <<c>>, date |-> d, y |-> y, fc |-> f]

\* family "reshape": two reports, two criteria, dates that parse as a Unix
\* timestamp, as a calendar date, or not at all
\* family "columns": one report, one date, criteria cells whose text order is
\* not their numeric order, and the criteria cell "date"
\* family "spelling": identity and criteria cells that are one number in two
\* spellings, or no number; one date
\* family "index": one report under two criteria columns, two signatures,
\* two dates, charted cells that are numbers or not
\* family "policy": one report, one date, one criterion: every row collides;
\* creation stamps that parse as float or not (no cell when the table has no
\* such column)
RowSet(fam, has_fc) ==
    IF fam = "reshape"
    THEN {MkRow(u, c, d, y, Cell_1) :
             u \in {Cell_a, Cell_b}, c \in {Cell_2, Cell_3},
             d \in {Cell_9, Cell_Jan2, NoneText}, y \in {Cell_2, Cell_4pct}}
    ELSE IF fam = "columns"
    THEN {MkRow(Cell_a, c, Cell_9, y, f) :
             c \in {Cell_9, Cell_10, Cell_b, DateText},
             y \in {Cell_2, Cell_4pct},
             f \in IF has_fc THEN {Cell_1} ELSE {<<>>}}
    ELSE IF fam = "spelling"
    THEN {MkRow(u, c, Cell_9, y, f) :
             u \in {Cell_5, Cell_5p0, Cell_a}, c \in {Cell_5, Cell_5p0},
             y \in {Cell_2, Cell_4pct},
             f \in IF has_fc THEN {Cell_1} ELSE {<<>>}}
    ELSE IF fam = "index"
    THEN {[uid |-> <<Cell_a>>, crit |-> <<Cell_2, c>>, date |-> d, y |-> y,
           fc |-> Cell_1] :
             c \in {Cell_2, Cell_b}, d \in {Cell_9, Cell_Jan2},
             y \in {Cell_2, Cell_4pct, Cell_x}}
    ELSE {MkRow(Cell_a, Cell_2, Cell_9, y, f) :
             y \in {Cell_2, Cell_4pct, Cell_x},
             f \in IF has_fc THEN {Cell_1, Cell_2, Cell_x} ELSE {<<>>}}

ImportPolicies(fam) == IF fam = "reshape" THEN {"first", "mean"} ELSE Policies

\* readings of datetime.now() at rows 1..n: the clock never runs backwards
\* and may not advance between two rows
ClockSet(n) ==
    {c \in [1..n -> 0..(IF n = 0 THEN 0 ELSE n - 1)] :
        /\ n > 0 => c[1] = 0
        /\ \A i \in 1..(n - 1) : c[i + 1] - c[i] \in {0, 1}}

NoClock(n) == [i \in 1..n |-> 0]

InitTable(fam) ==
    /\ family = fam
    /\ \E h \in (IF fam \in {"reshape", "index", "csv", "template file", "templates"}
                 THEN {TRUE} ELSE BOOLEAN) :
          data_dict = [rows |-> <<>>, has_fc |-> h]
    /\ call = None /\ wide = None /\ stats = None
    /\ cc = ControlChart(<<>>, Num(3), None, None, None)
    /\ cdata = None
    /\ data_table = None /\ control_chart_data = None /\ selected = None
    /\ InitOther

\* csv_to_dict: one more data row of the file
csv_row ==
    /\ call = None
    /\ Len(data_dict.rows) < MaxRows
    /\ \E r \in RowSet(family, data_dict.has_fc) :
          data_dict' = [data_dict EXCEPT !.rows = Append(@, r)]
    /\ UNCHANGED <<family, call, wide, stats, chartVars>>

\* IQDMStats.__init__: ReportImporter.__call__ (widen_data with the
\* importer's keyword arguments), then import_data
Import ==
    /\ call = None
    /\ \E policy \in ImportPolicies(family),
          clock \in (IF data_dict.has_fc THEN {NoClock(Len(data_dict.rows))}
                     ELSE ClockSet(Len(data_dict.rows))) :
          \E w \in {widen_data(data_dict, ImporterArgs(policy), clock)} :
             /\ call' = Some([args |-> ImporterArgs(policy), clock |-> clock])
             /\ wide' = Some(w)
             /\ stats' = IF w.status = "ok" THEN Some(IQDMStats(w, policy)) ELSE None
    /\ UNCHANGED <<family, data_dict, chartVars>>

\* widen_data called without a date column and without a creation-date
\* column, with and without a dtype
WidenDirect ==
    /\ call = None
    /\ \E policy \in Policies, dt \in BOOLEAN :
          LET a == [policy |-> policy, date_col |-> FALSE, fc |-> FALSE,
                    dtype |-> dt, sort_by_date |-> TRUE,
                    remove_partial_columns |-> FALSE]
          IN /\ call' = Some([args |-> a, clock |-> NoClock(Len(data_dict.rows))])
             /\ wide' = Some(widen_data(data_dict, a, NoClock(Len(data_dict.rows))))
    /\ UNCHANGED <<family, data_dict, stats, chartVars>>

NextWiden == csv_row \/ Import

SpecWiden == InitTable("reshape") /\ [][NextWiden]_vars

NextPolicy == csv_row \/ Import \/ WidenDirect

SpecPolicy == InitTable("policy") /\ [][NextPolicy]_vars

----------------------------------------------------------------------------
(* Control-chart claims *)

\* the window as the documentation states it: the 1-indexed positions
\* start..stop of y, both ends inclusive (all of y without a range)
WindowIdx(self) ==
    IF self.range = None THEN 1..Len(self.y)
    ELSE {i \in 1..Len(self.y) : self.range[1] <= i /\ i <= self.range[2]}

\* a window whose start is a position of a 1-indexed series
WindowStated(self) == self.range = None \/ self.range[1] >= 1

ValidIdx(self) == {i \in WindowIdx(self) : ~isnan(self.y[i])}

RECURSIVE SumOver(_, _)
SumOver(y, I) ==
    IF I = {} THEN Num(0)
    ELSE LET i == CHOOSE k \in I : TRUE IN Add(y[i], SumOver(y, I \ {i}))

\* pairs of non-NaN in-window positions with no non-NaN position between
ConsecutivePairs(self) ==
    {p \in ValidIdx(self) \X ValidIdx(self) :
        /\ p[1] < p[2]
        /\ ~\E k \in ValidIdx(self) : p[1] < k /\ k < p[2]}

RECURSIVE SumRanges(_, _)
SumRanges(y, P) ==
    IF P = {} THEN Num(0)
    ELSE LET p == CHOOSE q \in P : TRUE
         IN Add(AbsR(Sub(y[p[2]], y[p[1]])), SumRanges(y, P \ {p}))

\* C1: center_line is the arithmetic mean of the non-NaN values in the
\* window, and sigma is the mean of |v[i] - v[i-1]| over the in-window
\* values with NaN removed, divided by 1.128 (both NaN where the mean is
\* over nothing); y = [1,2,3,4,100] unwindowed gives 22 and 24.75.
C1_CenterLineSigma ==
    WindowStated(cc) =>
        LET k == Cardinality(ValidIdx(cc))
        IN /\ IF k = 0 THEN isnan(center_line(cc))
              ELSE Mul(center_line(cc), Num(k)) = SumOver(cc.y, ValidIdx(cc))
           /\ IF k < 2 THEN isnan(sigma(cc))
              ELSE Mul(Mul(sigma(cc), Rat(1128, 1000)), Num(k - 1))
                      = SumRanges(cc.y, ConsecutivePairs(cc))
           /\ cdata # None => cdata[1].center_line = center_line(cc)
           /\ (cc.y = ExampleSeries /\ cc.range = None) =>
                 /\ center_line(cc) = Num(22)
                 /\ cc_avg_moving_range(cc) = Rat(2475, 100)

C1_Witness ==
    /\ cdata # None
    /\ cc.y = ExampleSeries /\ cc.range = None
    /\ cdata[1].center_line = Num(22)
    /\ Mul(sigma(cc), Rat(1128, 1000)) = Rat(2475, 100)

C1_WitnessNaN ==
    /\ cdata # None
    /\ cc.y = <<Num(1), NaN, Num(3)>> /\ cc.range = None
    /\ cdata[1].center_line = Num(2)

\* Python's min(a, b) and max(a, b): b only when it compares below (above) a
PyMin(a, b) == IF Lt(b, a) THEN b ELSE a
PyMax(a, b) == IF Gt(b, a) THEN b ELSE a

Unclamped(self) ==
    <<Sub(center_line(self), Mul(self.std, sigma(self))),
      Add(center_line(self), Mul(self.std, sigma(self)))>>

\* C2: control_limits is (lcl, ucl) with ucl = min(center_line + std*sigma,
\* ucl_limit) when ucl_limit is given and the unclamped value otherwise, and
\* lcl = max(center_line - std*sigma, lcl_limit) likewise; ucl_limit never
\* raises the UCL, lcl_limit never lowers the LCL, and each limit acts on
\* its own side only (ucl_limit = 50 on [1,2,3,4,100]: UCL 50, LCL unclamped).
C2_ClampedLimits ==
    LET lim == control_limits(cc)
        raw == Unclamped(cc)
    IN /\ lim[2] = IF cc.ucl_limit = None THEN raw[2]
                   ELSE PyMin(raw[2], cc.ucl_limit[1])
       /\ lim[1] = IF cc.lcl_limit = None THEN raw[1]
                   ELSE PyMax(raw[1], cc.lcl_limit[1])
       /\ ~Gt(lim[2], raw[2])
       /\ ~Lt(lim[1], raw[1])
       /\ (cc.ucl_limit # None /\ Le(raw[2], cc.ucl_limit[1])) => lim[2] = raw[2]
       /\ (cc.lcl_limit # None /\ Le(cc.lcl_limit[1], raw[1])) => lim[1] = raw[1]
       /\ lim[1] = control_limits([cc EXCEPT !.ucl_limit = None])[1]
       /\ lim[2] = control_limits([cc EXCEPT !.lcl_limit = None])[2]
       /\ cdata # None => (cdata[1].lcl = lim[1] /\ cdata[1].ucl = lim[2])
       /\ (cc.y = ExampleSeries /\ cc.range = None /\ cc.std = Num(3)
              /\ cc.ucl_limit = Some(Num(50)) /\ cc.lcl_limit = None) =>
             (lim[2] = Num(50) /\ lim[1] = raw[1] /\ Gt(raw[2], Num(50)))

C2_Witness ==
    /\ cdata # None
    /\ cc.y = ExampleSeries /\ cc.range = None /\ cc.std = Num(3)
    /\ cc.ucl_limit = Some(Num(50)) /\ cc.lcl_limit = None
    /\ cdata[1].ucl = Num(50)
    /\ Lt(cdata[1].lcl, Num(0))

\* C3: out_of_control is the ascending, duplicate-free list of the 0-based
\* window positions whose value is strictly above ucl or strictly below lcl;
\* a value equal to a limit and a NaN are never listed, and a NaN stays at
\* its position in chart_data['y'].
C3_OutOfControl ==
    LET yr  == y_ranged(cc)
        lim == control_limits(cc)
        ooc == out_of_control(cc)
    IN /\ \A i \in 1..Len(ooc), j \in 1..Len(ooc) : i < j => ooc[i] < ooc[j]
       /\ {ooc[i] : i \in 1..Len(ooc)}
             = {p \in 0..(Len(yr) - 1) :
                   Gt(yr[p + 1], lim[2]) \/ Lt(yr[p + 1], lim[1])}
       /\ \A p \in 0..(Len(yr) - 1) :
             (isnan(yr[p + 1]) \/ (Le(lim[1], yr[p + 1]) /\ Le(yr[p + 1], lim[2])))
                => \A i \in 1..Len(ooc) : ooc[i] # p
       /\ cdata # None =>
             /\ cdata[1].out_of_control = ooc
             /\ WindowStated(cc) =>
                   \A i \in WindowIdx(cc) :
                      LET off == IF cc.range = None THEN 0 ELSE cc.range[1] - 1
                      IN isnan(cc.y[i]) <=> isnan(cdata[1].y[i - off])

\* a NaN in the window, a value equal to the UCL left in control, and
\* another value flagged
C3_Witness ==
    /\ cdata # None
    /\ \E i \in 1..Len(cdata[1].y) : isnan(cdata[1].y[i])
    /\ \E i \in 1..Len(cdata[1].y) :
          /\ cdata[1].y[i] = cdata[1].ucl
          /\ \A k \in 1..Len(cdata[1].out_of_control) :
                cdata[1].out_of_control[k] # i - 1
    /\ Len(cdata[1].out_of_control) >= 1

\* a value above the UCL and below the LCL at once (crossed clamps): listed once
C3_WitnessOverlap ==
    /\ cdata # None
    /\ \E i \in 1..Len(cdata[1].y) :
          Gt(cdata[1].y[i], cdata[1].ucl) /\ Lt(cdata[1].y[i], cdata[1].lcl)

ValidWindow(self) ==
    /\ self.range # None
    /\ 1 <= self.range[1] /\ self.range[1] <= self.range[2]
    /\ self.range[2] <= Len(self.y)

\* C4: for range = (start, stop), 1 <= start <= stop <= len(y), the chart
\* uses exactly y[start..stop] (1-indexed, inclusive): chart_data x and y
\* have stop-start+1 entries from the same positions, and center_line,
\* sigma, control_limits and out_of_control do not change when a value
\* outside the window changes ([1,2,3,4,100], range (1,4): center_line 2.5).
C4_Window ==
    ValidWindow(cc) =>
        LET start == cc.range[1]
            stop  == cc.range[2]
        IN /\ Len(y_ranged(cc)) = stop - start + 1
           /\ Len(x_ranged(cc)) = stop - start + 1
           /\ \A i \in 1..(stop - start + 1) :
                 /\ y_ranged(cc)[i] = cc.y[start - 1 + i]
                 /\ x_ranged(cc)[i] = Num(start - 1 + i)
           /\ cdata # None =>
                 (cdata[1].y = y_ranged(cc) /\ cdata[1].x = x_ranged(cc))
           /\ \A p \in (1..Len(cc.y)) \ (start..stop), v \in ChartVals :
                 LET other == [cc EXCEPT !.y[p] = v]
                 IN /\ center_line(other) = center_line(cc)
                    /\ sigma(other) = sigma(cc)
                    /\ control_limits(other) = control_limits(cc)
                    /\ out_of_control(other) = out_of_control(cc)
           /\ (cc.y = ExampleSeries /\ start = 1 /\ stop = 4) =>
                 center_line(cc) = Rat(5, 2)

C4_Witness ==
    /\ cdata # None
    /\ cc.y = ExampleSeries /\ cc.range = <<1, 4>>
    /\ cdata[1].center_line = Rat(5, 2)
    /\ Len(cdata[1].y) = 4 /\ Len(cdata[1].x) = 4

----------------------------------------------------------------------------
(* Reshaper claims *)

SourceRows == data_dict.rows

\* the (identity_key, date_value) pairs that occur in the source rows
SourcePairs ==
    {<<RowUid(SourceRows[i]), SourceRows[i].date>> : i \in 1..Len(SourceRows)}

\* a value was observed for the triple (u, d, x)
Observed(u, d, x) ==
    \E i \in 1..Len(SourceRows) :
        /\ RowUid(SourceRows[i]) = u
        /\ SourceRows[i].date = d
        /\ RowParams(SourceRows[i]) = x

Imported == call # None /\ wide # None /\ wide[1].status = "ok"

C6_Aligned ==
    stats # None =>
        LET s == stats[1]
            n == Len(s.uid_data)
        IN /\ Len(s.x_axis) = n
           /\ Len(s.data) = n
           /\ \A r \in 1..n : Len(s.data[r]) = Len(s.var_names)
           /\ \A r \in 1..n, c \in 1..Len(s.var_names) :
                 s.data[r][c] =
                    Cell(param_data(Entries(data_dict, call[1].args, call[1].clock),
                                    <<s.uid_data[r], s.x_axis[r]>>, s.var_names[c]),
                         call[1].args)

\* the sort moved the second group in front of the first, and the two rows
\* differ in uid and in their cells
C6_Witness ==
    /\ stats # None
    /\ Len(SourceRows) = 2
    /\ Len(stats[1].uid_data) = 2
    /\ stats[1].uid_data[1] = RowUid(SourceRows[2])
    /\ stats[1].uid_data[1] # stats[1].uid_data[2]
    /\ stats[1].x_axis[1] = SourceRows[2].date
    /\ stats[1].x_axis[1] # stats[1].x_axis[2]
    /\ stats[1].data[1] # stats[1].data[2]

C10_SortedByDate ==
    Imported =>
        \A i, j \in 1..Len(wide[1].uid) :
            (/\ i < j
             /\ IsDT(get_datetime(wide[1].date[1][i]))
             /\ IsDT(get_datetime(wide[1].date[1][j])))
               => Le(get_datetime(wide[1].date[1][i]).dt,
                     get_datetime(wide[1].date[1][j]).dt)

\* a table whose dates are a calendar date, a Unix timestamp and a text that
\* does not parse, read in an order that is not the order of the dates
C10_Witness ==
    /\ Imported
    /\ Len(SourceRows) = 3
    /\ SourceRows[1].date = Cell_Jan2
    /\ SourceRows[2].date = NoneText
    /\ SourceRows[3].date = Cell_9
    /\ wide[1].date[1] = <<Cell_9, Cell_Jan2, NoneText>>

\* the values that collide on the one cell of a table whose rows share
\* identity key, date and criteria, after coercion
Coerced == [i \in 1..Len(SourceRows) |-> remove_non_numeric(SourceRows[i].y)]

Colliding == call # None /\ Len(SourceRows) >= 2

TheCell == wide[1].cols[1][1]

\* C8: for colliding values, 'mean', 'min' and 'max' emit the mean, the
\* minimum and the maximum of the coerced values ([2.0, 4.0]: 3.0, 2.0,
\* 4.0); a reduction that fails (a value that is no number) gives NaN and
\* the call returns; without a creation-date argument 'first' emits the
\* first and 'last' the last value in source row order.
C8_Policies ==
    Colliding =>
        LET a == call[1].args
            n == Len(SourceRows)
        IN /\ wide[1].status = "ok"
           /\ (a.dtype /\ a.policy \in {"mean", "min", "max"}) =>
                 IF \E i \in 1..n : isnan(Coerced[i]) THEN TheCell = NaN
                 ELSE /\ a.policy = "mean" =>
                            Mul(TheCell, Num(n)) = SumOver(Coerced, 1..n)
                      /\ a.policy = "min" =>
                            /\ \E i \in 1..n : TheCell = Coerced[i]
                            /\ \A i \in 1..n : Le(TheCell, Coerced[i])
                      /\ a.policy = "max" =>
                            /\ \E i \in 1..n : TheCell = Coerced[i]
                            /\ \A i \in 1..n : Le(Coerced[i], TheCell)
           /\ (~a.dtype /\ a.policy = "mean") => TheCell = NaN
           /\ (~a.fc /\ a.policy = "first") =>
                 TheCell = apply_dtype(SourceRows[1].y, a.dtype)
           /\ (~a.fc /\ a.policy = "last") =>
                 TheCell = apply_dtype(SourceRows[n].y, a.dtype)
           /\ (a.dtype /\ n = 2 /\ Coerced = <<Num(2), Num(4)>>) =>
                 /\ a.policy = "mean" => TheCell = Num(3)
                 /\ a.policy = "min" => TheCell = Num(2)
                 /\ a.policy = "max" => TheCell = Num(4)
                 /\ (~a.fc /\ a.policy = "first") => TheCell = Num(2)
                 /\ (~a.fc /\ a.policy = "last") => TheCell = Num(4)

\* the values 2.0 and 4.0 imported with policy 'mean'
C8_Witness ==
    /\ Colliding
    /\ call[1].args.policy = "mean"
    /\ call[1].args.dtype
    /\ call[1].args.fc
    /\ Coerced = <<Num(2), Num(4)>>
    /\ TheCell = Num(3)

\* the values 2.0 and 4.0 with policy 'last' and no creation-date argument
C8_WitnessLast ==
    /\ Colliding
    /\ call[1].args.policy = "last"
    /\ ~call[1].args.fc
    /\ call[1].args.dtype
    /\ Coerced = <<Num(2), Num(4)>>
    /\ TheCell = Num(4)

\* a reduction that fails: a value that is no number under 'max'
C8_WitnessFailure ==
    /\ Colliding
    /\ call[1].args.policy = "max"
    /\ \E i \in 1..Len(SourceRows) : isnan(Coerced[i])
    /\ \E i \in 1..Len(SourceRows) : ~isnan(Coerced[i])
    /\ wide[1].status = "ok"
    /\ TheCell = NaN

\* the creation timestamps of the colliding rows all parse
StampsParse ==
    /\ data_dict.has_fc
    /\ \A i \in 1..Len(SourceRows) : is_numeric(SourceRows[i].fc)

CreationStamp(i) == py_float(SourceRows[i].fc).v

\* C9: for 'first' and 'last' with colliding values and a creation-date
\* argument: when the table has the creation-date column and its values
\* parse, the value of a row with the earliest (latest) creation timestamp is
\* emitted; when the table has no such column, or a value of it does not
\* parse, the first (last) value in source row order is emitted.
C9_FirstLast ==
    (Colliding /\ call[1].args.fc /\ call[1].args.policy \in {"first", "last"}) =>
        LET n == Len(SourceRows)
        IN IF StampsParse
           THEN \E i \in 1..n :
                   /\ TheCell = Coerced[i]
                   /\ \A j \in 1..n :
                         IF call[1].args.policy = "first"
                         THEN Le(CreationStamp(i), CreationStamp(j))
                         ELSE Le(CreationStamp(j), CreationStamp(i))
           ELSE TheCell = Coerced[IF call[1].args.policy = "first" THEN 1 ELSE n]

\* the part of C9 about creation timestamps that parse
C9_ByTimestamp ==
    (Colliding /\ call[1].args.fc /\ call[1].args.policy \in {"first", "last"}
       /\ StampsParse) =>
        \E i \in 1..Len(SourceRows) :
           /\ TheCell = Coerced[i]
           /\ \A j \in 1..Len(SourceRows) :
                 IF call[1].args.policy = "first"
                 THEN Le(CreationStamp(i), CreationStamp(j))
                 ELSE Le(CreationStamp(j), CreationStamp(i))

\* 'last' over a table without creation-date column whose two rows are read
\* within one reading of the clock: the first value is emitted
C9_ClockTie ==
    /\ Colliding
    /\ ~data_dict.has_fc
    /\ call[1].args.fc
    /\ call[1].args.policy = "last"
    /\ Len(SourceRows) = 2
    /\ call[1].clock = <<0, 0>>
    /\ Coerced = <<Num(2), Num(4)>>
    /\ TheCell = Num(2)

\* 'last' over creation cells "x" and "1": the text "x" is the maximum
C9_TextStamp ==
    /\ Colliding
    /\ data_dict.has_fc
    /\ call[1].args.policy = "last"
    /\ Len(SourceRows) = 2
    /\ SourceRows[1].fc = Cell_x
    /\ SourceRows[2].fc = Cell_1
    /\ Coerced = <<Num(2), Num(4)>>
    /\ TheCell = Num(2)

----------------------------------------------------------------------------
(* Backup date, empty table, policy validation *)

\* the parsed creation dates of the source rows of the group (u, d)
BackupDates(u, d) ==
    {get_datetime(SourceRows[i].fc) :
        i \in {k \in 1..Len(SourceRows) :
                  RowUid(SourceRows[k]) = u /\ SourceRows[k].date = d}}

\* the dates that may place the output row (u, d): its parsed primary date,
\* or, when that does not parse, a parsed backup date of the group
SortKeys(u, d) ==
    IF IsDT(get_datetime(d)) THEN {get_datetime(d)}
    ELSE {b \in BackupDates(u, d) : IsDT(b)}

\* C11: an output row whose primary date does not parse is placed by its
\* parsed backup (file creation) date: of two output rows that both have a
\* placing date, the earlier row has the earlier or the same one; and the
\* backup column is no column of the output.
C11_BackupOrder ==
    Imported =>
        /\ ~wide[1].fc_key
        /\ \A i, j \in 1..Len(wide[1].uid) :
              (/\ i < j
               /\ SortKeys(wide[1].uid[i], wide[1].date[1][i]) # {}
               /\ SortKeys(wide[1].uid[j], wide[1].date[1][j]) # {})
                 => \E a \in SortKeys(wide[1].uid[i], wide[1].date[1][i]),
                       b \in SortKeys(wide[1].uid[j], wide[1].date[1][j]) :
                          Le(a.dt, b.dt)

\* a row dated "None" with creation date 1 s behind a row dated 9 s
C11_Misplaced ==
    /\ Imported
    /\ Len(SourceRows) = 2
    /\ wide[1].date[1] = <<Cell_9, NoneText>>
    /\ BackupDates(wide[1].uid[2], NoneText) = {DT(Num(1))}

\* C12: widen_data on a table without data rows returns an empty result,
\* and the IQDMStats built from it has a matrix of zero rows.
C12_EmptyTable ==
    (call # None /\ SourceRows = <<>>) =>
        /\ wide[1].status = "ok"
        /\ wide[1].uid = <<>>
        /\ stats # None
        /\ stats[1].data = <<>>

\* the import of the table without rows raised IndexError
C12_Raised ==
    /\ call # None
    /\ SourceRows = <<>>
    /\ call[1].args = ImporterArgs(call[1].args.policy)
    /\ wide[1].status = "IndexError"
    /\ stats = None

\* names that are no duplicate-value policy
InvalidPolicies == {"median", "First"}

\* widen_data called with a multi_val_policy outside the five names, with
\* and without date column, creation-date column and dtype
WidenInvalid ==
    /\ call = None
    /\ \E policy \in InvalidPolicies, dc \in BOOLEAN, fc \in BOOLEAN, dt \in BOOLEAN :
          \E a \in {[policy |-> policy, date_col |-> dc, fc |-> fc, dtype |-> dt,
                     sort_by_date |-> TRUE, remove_partial_columns |-> FALSE]} :
             /\ call' = Some([args |-> a, clock |-> NoClock(Len(data_dict.rows))])
             /\ wide' = Some(widen_data(data_dict, a, NoClock(Len(data_dict.rows))))
    /\ UNCHANGED <<family, data_dict, stats, chartVars>>

NextValidate == csv_row \/ Import \/ WidenInvalid

SpecValidate == InitTable("reshape") /\ [][NextValidate]_vars

\* C13: with a multi_val_policy that is none of 'first', 'last', 'min',
\* 'mean', 'max', widen_data raises and returns nothing, whatever the table
\* (empty, without colliding values, with colliding values) and whatever the
\* other arguments; with one of the five names it does not raise that error.
C13_InvalidPolicy ==
    call # None =>
        IF call[1].args.policy \in Policies
        THEN wide[1].status # "NotImplementedError"
        ELSE /\ wide[1] = Failed("NotImplementedError")
             /\ stats = None

\* an unknown policy on a table of two rows that do not collide
C13_Witness ==
    /\ call # None
    /\ call[1].args.policy = "median"
    /\ ~call[1].args.date_col
    /\ Len(SourceRows) = 2
    /\ Cardinality(SourcePairs) = 2
    /\ wide[1].status = "NotImplementedError"
    /\ wide[1].uid = <<>>

----------------------------------------------------------------------------
(* Keys and columns *)

SpecSpelling == InitTable("spelling") /\ [][NextWiden]_vars

\* a cell in its float string form when it parses as a number
NormText(c) == IF is_numeric(c) THEN float_str(py_float(c).v) ELSE c

NormJoin(cells) == Join(Sep, [i \in 1..Len(cells) |-> NormText(cells[i])])

\* C14 as stated: identity key and criteria signature are both joined from
\* the cells with every numeric cell in its float string form, so '5' and
\* '5.0' give one identity key and one criteria signature.
C14_BothNormalised ==
    Imported =>
        /\ {wide[1].uid[k] : k \in 1..Len(wide[1].uid)}
              = {NormJoin(SourceRows[i].uid) : i \in 1..Len(SourceRows)}
        /\ {wide[1].x_variables[c] : c \in 1..Len(wide[1].x_variables)}
              = {NormJoin(SourceRows[i].crit) : i \in 1..Len(SourceRows)}

\* C14: the criteria signature is joined with ' && ' from the criteria cells
\* with every numeric cell in its float string form ('5' and '5.0' both give
\* '5.0'); the identity key is joined with ' && ' from the identity cells as
\* they are spelled ('5' and '5.0' are two identity keys).
C14_Keys ==
    Imported =>
        /\ {wide[1].uid[k] : k \in 1..Len(wide[1].uid)}
              = {Join(Sep, SourceRows[i].uid) : i \in 1..Len(SourceRows)}
        /\ {wide[1].x_variables[c] : c \in 1..Len(wide[1].x_variables)}
              = {NormJoin(SourceRows[i].crit) : i \in 1..Len(SourceRows)}
        /\ (\A i \in 1..Len(SourceRows) : SourceRows[i].crit \in {<<Cell_5>>, <<Cell_5p0>>})
              => wide[1].x_variables = <<Cell_5p0>>

\* identity cells '5' and '5.0' with criteria cells '5' and '5.0': two output
\* rows, one column
C14_Witness ==
    /\ Imported
    /\ Len(SourceRows) = 2
    /\ SourceRows[1].uid = <<Cell_5>> /\ SourceRows[2].uid = <<Cell_5p0>>
    /\ SourceRows[1].crit = <<Cell_5>> /\ SourceRows[2].crit = <<Cell_5p0>>
    /\ wide[1].uid = <<Cell_5, Cell_5p0>>
    /\ wide[1].x_variables = <<Cell_5p0>>

SpecColumns == InitTable("columns") /\ [][NextWiden]_vars

\* the criteria signatures of the source rows
SourceSignatures == {NormJoin(SourceRows[i].crit) : i \in 1..Len(SourceRows)}

\* strictly ascending in the order of str
Ascending(names) ==
    \A c \in 1..(Len(names) - 1) : LexLess(names[c], names[c + 1])

----------------------------------------------------------------------------
(* importer.py: ReportImporter over a parser template.  A row of the file  *)
(* holds one cell per template column (and the cell of                     *)
(* "report_file_creation", which is no template column); uid_col selects   *)
(* the identity columns, with and without duplicate detection.             *)

\* CSVParser.columns and CSVParser.analysis_columns (1-based positions)
columns == <<"patient", "date", "crit", "y">>

analysis_columns == [uid |-> <<1>>, criteria |-> <<3>>, date |-> 2, y |-> 4]

criteria_col ==
    [i \in 1..Len(analysis_columns.criteria) |-> columns[analysis_columns.criteria[i]]]

\* the orders in which iterating a set of str may yield its elements
SetOrders(S) ==
    {o \in [1..Cardinality(S) -> S] :
        \A i, j \in 1..Cardinality(S) : i # j => o[i] # o[j]}

NonCriteria ==
    {columns[i] : i \in 1..Len(columns)} \ {criteria_col[i] : i \in 1..Len(criteria_col)}

\* uid_col computed from the template's uid indices whatever the flag
uid_colTemplateOnly(duplicate_detection, set_order) ==
    [i \in 1..Len(analysis_columns.uid) |-> columns[analysis_columns.uid[i]]]

\* ReportImporter.uid_col; set_order is the iteration order of
\* set(columns) - set(criteria_col)
uid_col(duplicate_detection, set_order) ==
    IF duplicate_detection
    THEN [i \in 1..Len(analysis_columns.uid) |-> columns[analysis_columns.uid[i]]]
    ELSE set_order

\* the cells widen_data reads of one row: data_dict[col][row] for the uid
\* columns, the criteria columns, the date column and the charting column
ReportRow(r, uid_columns) ==
    [uid  |-> [k \in 1..Len(uid_columns) |-> r[uid_columns[k]]],
     crit |-> [k \in 1..Len(criteria_col) |-> r[criteria_col[k]]],
     date |-> r[columns[analysis_columns.date]],
     y    |-> r[columns[analysis_columns.y]],
     fc   |-> r.fc]

ReportTable(table, uid_columns) ==
    [rows   |-> [i \in 1..Len(table.rows) |-> ReportRow(table.rows[i], uid_columns)],
     has_fc |-> table.has_fc]

TemplateRows(has_fc) ==
    {[patient |-> p, date |-> Cell_9, crit |-> Cell_2, y |-> y, fc |-> f] :
        p \in {Cell_a, Cell_b}, y \in {Cell_2, Cell_4pct},
        f \in IF has_fc THEN {Cell_1} ELSE {<<>>}}

\* csv_to_dict over a file of the template: one more data row
csv_template_row ==
    /\ call = None
    /\ Len(data_dict.rows) < MaxRows
    /\ \E r \in TemplateRows(data_dict.has_fc) :
          data_dict' = [data_dict EXCEPT !.rows = Append(@, r)]
    /\ UNCHANGED <<family, call, wide, stats, chartVars>>

\* IQDMStats.__init__ with the duplicate_detection option: ReportImporter's
\* call with uid_columns = uid_col
ImportReport ==
    /\ call = None
    /\ \E dd \in BOOLEAN, policy \in {"first", "last"}, order \in SetOrders(NonCriteria),
          clock \in (IF data_dict.has_fc THEN {NoClock(Len(data_dict.rows))}
                     ELSE ClockSet(Len(data_dict.rows))) :
          \E w \in {widen_data(ReportTable(data_dict, uid_col(dd, order)),
                               ImporterArgs(policy), clock)} :
             /\ call' = Some([args |-> ImporterArgs(policy), clock |-> clock,
                              duplicate_detection |-> dd, uid_col |-> uid_col(dd, order)])
             /\ wide' = Some(w)
             /\ stats' = IF w.status = "ok" THEN Some(IQDMStats(w, policy)) ELSE None
    /\ UNCHANGED <<family, data_dict, chartVars>>

\* the same call once more, on the same table with the same parameters: the
\* clock is read again and the set is iterated again
Rerun ==
    /\ Len(call) = 1
    /\ \E order \in SetOrders(NonCriteria),
          clock \in (IF data_dict.has_fc THEN {NoClock(Len(data_dict.rows))}
                     ELSE ClockSet(Len(data_dict.rows))) :
          \E uc \in {uid_col(call[1].duplicate_detection, order)} :
             /\ call' = Append(call, [call[1] EXCEPT !.clock = clock, !.uid_col = uc])
             /\ wide' = Append(wide, widen_data(ReportTable(data_dict, uc),
                                                call[1].args, clock))
    /\ UNCHANGED <<family, data_dict, stats, chartVars>>

NextReport == csv_template_row \/ ImportReport \/ Rerun

SpecReport == InitTable("template") /\ [][NextReport]_vars

\* the cells of the non-criteria columns of source row i, in template order
NonCriteriaCells(i) ==
    [k \in {c \in 1..Len(columns) : columns[c] \in NonCriteria} |->
        data_dict.rows[i][columns[k]]]

\* the identity key of source row i in the first call
CallUid(i) == RowUid(ReportRow(data_dict.rows[i], call[1].uid_col))

C17_Deterministic ==
    Len(wide) = 2 => wide[2] = wide[1]

\* the part of C17 that holds: with the same readings of the clock and the
\* same iteration order the output is the same
C17_SameHiddenInputs ==
    (Len(wide) = 2 /\ call[2] = call[1]) => wide[2] = wide[1]

\* two runs without duplicate detection that differ in the uid strings only
C17_SetOrder ==
    /\ Len(wide) = 2
    /\ ~call[1].duplicate_detection
    /\ call[1].clock = call[2].clock
    /\ call[1].uid_col # call[2].uid_col
    /\ wide[1].status = "ok" /\ wide[2].status = "ok"
    /\ wide[1].uid # wide[2].uid
    /\ wide[1].cols = wide[2].cols

\* two runs with duplicate detection over a table without creation-date
\* column that differ in a cell: the clock stood still in one of them
C17_Clock ==
    /\ Len(wide) = 2
    /\ call[1].duplicate_detection
    /\ ~data_dict.has_fc
    /\ call[1].clock # call[2].clock
    /\ wide[1].status = "ok" /\ wide[2].status = "ok"
    /\ wide[1].uid = wide[2].uid
    /\ wide[1].cols # wide[2].cols

----------------------------------------------------------------------------
(* The report view: MainFrame loads a report (update_report_data), which   *)
(* fills the index table and the charts and selects the first table row,   *)
(* and the user selects other rows of the table.                           *)

\* the criteria columns of the template of family "index"
IndexCriteria == <<"crit 1", "crit 2">>

\* the limits a template gives for the charted column
TemplateLimits == {<<None, None>>, <<Some(Num(3)), Some(Num(0))>>}

\* the keyword arguments of update_control_chart_data, the range spinners
\* as update_range_spinners leaves them
ChartArgs(self, limits) ==
    [std |-> Num(3), ucl_limit |-> limits[1], lcl_limit |-> limits[2],
     range |-> <<1, Len(self.x_axis)>>]

\* DataTable.get_value(row_index, 0) for a 1-based row
get_value(dt, row) == dt.table[dt.columns[1]][row]

\* DataTable.row_count
row_count(dt) == Len(dt.table[dt.columns[1]])

\* MainFrame.update_report_data on a first load: IQDMStats, the index table,
\* the charts, and the selection of the first row, which on_table_select
\* answers with update_chart_data; an exception leaves the view as it was
update_report_data ==
    /\ call = None
    /\ \E policy \in Policies, limits \in TemplateLimits :
          \E w \in {widen_data(data_dict, ImporterArgs(policy),
                               NoClock(Len(data_dict.rows)))} :
             /\ call' = Some([args |-> ImporterArgs(policy),
                              clock |-> NoClock(Len(data_dict.rows)),
                              limits |-> limits])
             /\ wide' = Some(w)
             /\ IF w.status # "ok"
                THEN /\ stats' = None
                     /\ UNCHANGED chartVars
                ELSE \E self \in {IQDMStats(w, policy)} :
                     \E dt \in {get_index_description(self, IndexCriteria)},
                        charts \in {univariate_control_charts(self, ChartArgs(self, limits))} :
                        /\ stats' = Some(self)
                        /\ IF dt.status # "ok"
                           THEN UNCHANGED chartVars
                           ELSE /\ data_table' = Some(dt)
                                /\ control_chart_data' = Some(charts)
                                /\ selected' = Some(1)
                                /\ cc' = DictGet(charts, get_value(dt, 1))
                                /\ cdata' = None
                                /\ UNCHANGED otherVars
    /\ UNCHANGED <<family, data_dict>>

\* MainFrame.on_table_select -> update_chart_data: another row is selected
on_table_select ==
    /\ data_table # None
    /\ \E row \in 1..row_count(data_table[1]) :
          /\ selected # Some(row)
          /\ selected' = Some(row)
          /\ cc' = DictGet(control_chart_data[1], get_value(data_table[1], row))
    /\ cdata' = None
    /\ UNCHANGED <<data_table, control_chart_data, tableVars, otherVars>>

NextIndex == csv_row \/ update_report_data \/ on_table_select

SpecIndex == InitTable("index") /\ [][NextIndex]_vars

\* C18: get_index_description after the reshape returns the column order
\* Index, Reports and one column per criteria field, and a table in which
\* every column has len(var_names) + 1 entries: row i describes variable i
\* (its index, its number of non-NaN reports, the pieces of its name), and
\* the last row is the 'All' summary row.
C18_IndexDescription ==
    /\ stats # None => data_table # None
    /\ data_table # None =>
          LET dt == data_table[1]
              s  == stats[1]
              n  == Len(s.var_names)
          IN /\ dt.columns = <<"Index", "Reports">> \o IndexCriteria
             /\ DOMAIN dt.table = {dt.columns[j] : j \in 1..Len(dt.columns)}
             /\ \A j \in 1..Len(dt.columns) : Len(dt.table[dt.columns[j]]) = n + 1
             /\ \A i \in 1..n :
                   /\ dt.table["Index"][i] = PyInt(i - 1)
                   /\ dt.table["Reports"][i]
                         = PyInt(Cardinality({r \in 1..Len(s.data) : ~isnan(s.data[r][i])}))
                   /\ Join(Sep, [j \in 1..Len(IndexCriteria) |->
                                    dt.table[IndexCriteria[j]][i].str]) = s.var_names[i]
             /\ dt.table["Index"][n + 1] = PyInt(n)
             /\ dt.table["Reports"][n + 1] = Str(AllText)
             /\ \A j \in 1..Len(IndexCriteria) :
                   dt.table[IndexCriteria[j]][n + 1] = Str(NAText)

\* two variables under two criteria columns, one of them with fewer reports
\* than the matrix has rows
C18_Witness ==
    /\ data_table # None
    /\ Len(stats[1].var_names) = 2
    /\ Len(stats[1].data) = 2
    /\ data_table[1].table["Reports"][1] = PyInt(2)
    /\ data_table[1].table["Reports"][2] = PyInt(0)
    /\ data_table[1].table["crit 2"] = <<Str(<<"2", ".", "0">>), Str(Cell_b), Str(NAText)>>

\* the chart main.py asks for over column c (1-based) of the loaded matrix
ChartOfColumn(c) ==
    LET kw == ChartArgs(stats[1], call[1].limits)
    IN ControlChart([r \in 1..Len(stats[1].data) |-> stats[1].data[r][c]],
                    kw.std, kw.ucl_limit, kw.lcl_limit, kw.range)

\* the name the criteria cells of table row i spell
RowName(i) ==
    Join(Sep, [j \in 1..Len(IndexCriteria) |->
                  data_table[1].table[IndexCriteria[j]][i].str])

\* C19: in the mapping of univariate_control_charts, key var_names[i] and
\* key i hold the chart of column i for every i in 0..len(var_names)-1, key
\* 'All' and key len(var_names) hold the aggregate chart, and every Index of
\* the table of get_index_description is a key that selects the chart of
\* the variable its row describes: that chart is the one shown for the
\* selected row.
C19_DualKeys ==
    /\ stats # None => control_chart_data # None
    /\ control_chart_data # None =>
          LET d  == control_chart_data[1]
              dt == data_table[1]
              s  == stats[1]
              n  == Len(s.var_names)
          IN /\ \A i \in 1..Len(d), k \in 1..Len(d) : d[i][1] = d[k][1] => i = k
             /\ \A i \in 0..(n - 1) :
                   /\ {Str(s.var_names[i + 1]), PyInt(i)} \subseteq DictKeys(d)
                   /\ DictGet(d, Str(s.var_names[i + 1])) = ChartOfColumn(i + 1)
                   /\ DictGet(d, PyInt(i)) = ChartOfColumn(i + 1)
             /\ {Str(AllText), PyInt(n)} \subseteq DictKeys(d)
             /\ DictGet(d, PyInt(n)) = DictGet(d, Str(AllText))
             /\ Len(DictGet(d, Str(AllText)).y) = Len(s.data)
             /\ \A row \in 1..row_count(dt) :
                   /\ get_value(dt, row) \in DictKeys(d)
                   /\ IF dt.table["Reports"][row] = Str(AllText)
                      THEN DictGet(d, get_value(dt, row)) = DictGet(d, Str(AllText))
                      ELSE \E c \in 1..n :
                              /\ s.var_names[c] = RowName(row)
                              /\ DictGet(d, get_value(dt, row)) = ChartOfColumn(c)
             /\ cc = DictGet(d, get_value(dt, selected[1]))

\* the second of two variables is selected, and its chart is neither the
\* chart of the first variable nor the aggregate chart
C19_Witness ==
    /\ control_chart_data # None
    /\ Len(stats[1].var_names) = 2
    /\ selected = Some(2)
    /\ cc = ChartOfColumn(2)
    /\ cc # ChartOfColumn(1)
    /\ cc # DictGet(control_chart_data[1], Str(AllText))

\* the aggregate chart of the loaded report
AllChart == DictGet(control_chart_data[1], Str(AllText))

\* the columns of matrix row r that hold a number
Reported(r) == {c \in 1..Len(stats[1].var_names) : ~isnan(stats[1].data[r][c])}

\* C20: the series of the 'All' chart has one value per matrix row: the
\* mean, the minimum or the maximum of the row's values that are not NaN,
\* by the active duplicate policy, where 'first' and 'last' take the maximum
\* (a row of NaN only gives NaN).
C20_AllSeries ==
    control_chart_data # None =>
        LET s == stats[1]
            y == AllChart.y
        IN /\ s.multi_val_policy = call[1].args.policy
           /\ Len(y) = Len(s.data)
           /\ \A r \in 1..Len(s.data) :
                 IF Reported(r) = {} THEN isnan(y[r])
                 ELSE IF s.multi_val_policy = "mean"
                 THEN y[r] = Div(SumOver(s.data[r], Reported(r)),
                                 Num(Cardinality(Reported(r))))
                 ELSE IF s.multi_val_policy = "min"
                 THEN /\ \E c \in Reported(r) : y[r] = s.data[r][c]
                      /\ \A c \in Reported(r) : Le(y[r], s.data[r][c])
                 ELSE /\ \E c \in Reported(r) : y[r] = s.data[r][c]
                      /\ \A c \in Reported(r) : Le(s.data[r][c], y[r])

\* policy 'first' on a matrix of two rows: one row with two different
\* numbers, whose maximum differs from the mean and from the first column,
\* and one row with a NaN that is skipped
C20_Witness ==
    /\ control_chart_data # None
    /\ stats[1].multi_val_policy = "first"
    /\ Len(stats[1].data) = 2
    /\ \E r \in 1..2 :
          /\ stats[1].data[r] = <<Num(2), Num(4)>>
          /\ AllChart.y[r] = Num(4)
    /\ \E r \in 1..2 :
          /\ stats[1].data[r] = <<NaN, Num(2)>>
          /\ AllChart.y[r] = Num(2)

\* policy 'mean': the mean runs over the reported values only
C20_WitnessMean ==
    /\ control_chart_data # None
    /\ stats[1].multi_val_policy = "mean"
    /\ \E r \in 1..Len(stats[1].data) :
          /\ stats[1].data[r] = <<Num(2), Num(4)>>
          /\ AllChart.y[r] = Num(3)
    /\ \E r \in 1..Len(stats[1].data) :
          /\ stats[1].data[r] = <<NaN, NaN>>
          /\ isnan(AllChart.y[r])

----------------------------------------------------------------------------
(* Direct requests: univariate_control_chart is called on a loaded report  *)
(* with a name, an index, or something that is neither.                    *)

\* the keyword defaults of univariate_control_chart
DefaultArgs == [std |-> Num(3), ucl_limit |-> None, lcl_limit |-> None, range |-> None]

\* names of the report, 'All', two texts that name nothing, and the integers
\* around the valid indices
Requests(self) ==
    {Str(self.var_names[i]) : i \in 1..Len(self.var_names)}
       \cup {Str(AllText), Str(Cell_x), Str(<<>>)}
       \cup {PyInt(i) : i \in -1..(Len(self.var_names) + 1)}

request_chart ==
    /\ stats # None
    /\ \E v \in Requests(stats[1]) :
          lookup' = Some([var_name |-> v,
                          result |-> univariate_control_chart(stats[1], v, DefaultArgs)])
    /\ UNCHANGED <<cc, cdata, data_table, control_chart_data, selected, tableVars,
                   csv_file, loaded, schema, template, template_file, reloaded,
                   templates_dir, dir_before>>

NextLookup == csv_row \/ Import \/ request_chart

SpecLookup == InitTable("index") /\ [][NextLookup]_vars

\* the chart of column c (1-based) of the loaded matrix with the defaults
DefaultChart(c) ==
    ControlChart([r \in 1..Len(stats[1].data) |-> stats[1].data[r][c]],
                 Num(3), None, None, None)

\* C21: univariate_control_chart(v) charts column i when v is var_names[i]
\* or the integer i with 0 <= i < variable_count; for every other v but
\* 'All' it returns no chart and fails with an error whose message holds
\* the invalid value and the list of the valid names.
C21_Lookup ==
    lookup # None =>
        LET v   == lookup[1].var_name
            res == lookup[1].result
            s   == stats[1]
            n   == Len(s.var_names)
        IN IF v = Str(AllText) THEN TRUE
           ELSE IF IsStr(v) /\ \E i \in 1..n : s.var_names[i] = v.str
           THEN \A i \in 1..n : s.var_names[i] = v.str => res = DefaultChart(i)
           ELSE IF IsInt(v) /\ 0 <= v.int /\ v.int < n
           THEN res = DefaultChart(v.int + 1)
           ELSE /\ "y" \notin DOMAIN res
                /\ res.status = "AttributeError"
                /\ res.msg[1] = (IF IsStr(v) THEN v.str
                                 ELSE IF v.int = -1 THEN <<"-", "1">>
                                 ELSE IntStr(v.int))
                /\ res.msg[3] = Join(<<",">>, s.var_names)

\* the index just past the last of two variables is refused, and the
\* message lists both names
C21_Witness ==
    /\ lookup # None
    /\ Len(stats[1].var_names) = 2
    /\ lookup[1].var_name = PyInt(2)
    /\ lookup[1].result.status = "AttributeError"
    /\ lookup[1].result.msg[1] = <<"2">>
    /\ lookup[1].result.msg[3]
          = stats[1].var_names[1] \o <<",">> \o stats[1].var_names[2]

\* the last valid index charts the last column, which differs from the first
C21_WitnessIndex ==
    /\ lookup # None
    /\ Len(stats[1].var_names) = 2
    /\ lookup[1].var_name = PyInt(1)
    /\ lookup[1].result = DefaultChart(2)
    /\ DefaultChart(2) # DefaultChart(1)

----------------------------------------------------------------------------
(* The CSV loader: a file is written row by row and csv_to_dict reads it,  *)
(* with the header row as keys and no dtype (ReportImporter.__init__).     *)

MaxLines == 3
MaxCells == 3

\* what the loop appends to column key for one row: the cells under the
\* header cells that strip to key, left to right
RowCells(keys, row, key) ==
    LET at == SelectSeq([c \in 1..Len(row) |-> c], LAMBDA c : keys[c] = key)
    IN [k \in 1..Len(at) |-> row[at[k]]]

\* csv_to_dict(csv_file_path): next(reader) on an empty file raises
\* StopIteration, keys[c] past the header raises IndexError
csv_to_dict(file) ==
    IF file = <<>> THEN [status |-> "StopIteration"]
    ELSE IF \E r \in 2..Len(file) : Len(file[r]) > Len(file[1])
    THEN [status |-> "IndexError"]
    ELSE [status |-> "ok",
          data |-> [key \in {Strip(file[1][c]) : c \in 1..Len(file[1])} |->
                      Flatten([r \in 1..(Len(file) - 1) |->
                                  RowCells([c \in 1..Len(file[1]) |-> Strip(file[1][c])],
                                           file[r + 1], key)])]]

\* rows of zero to MaxCells cells
CsvRows == UNION {[1..n -> {Cell_a, Cell_1}] : n \in 0..MaxCells}

\* one more row is written to the file
write_row ==
    /\ loaded = None
    /\ Len(csv_file) < MaxLines
    /\ \E row \in CsvRows : csv_file' = Append(csv_file, row)
    /\ UNCHANGED <<cc, cdata, data_table, control_chart_data, selected, tableVars,
                   lookup, loaded, schema, template, template_file, reloaded,
                   templates_dir, dir_before>>

\* ReportImporter.__init__: self.data_dict = csv_to_dict(report_file_path)
read_csv ==
    /\ loaded = None
    /\ loaded' = Some(csv_to_dict(csv_file))
    /\ UNCHANGED <<cc, cdata, data_table, control_chart_data, selected, tableVars,
                   lookup, csv_file, schema, template, template_file, reloaded,
                   templates_dir, dir_before>>

NextCsv == write_row \/ read_csv

SpecCsv == InitTable("csv") /\ [][NextCsv]_vars

\* a data row has fewer or more cells than the header
Ragged(file) == \E r \in 2..Len(file) : Len(file[r]) # Len(file[1])

\* C22: the loader returns a table whose columns all have the length of the
\* number of data rows, or it fails; a file with a data row shorter or
\* longer than the header is rejected and yields no table.
C22_UniformOrRejected ==
    loaded # None =>
        /\ loaded[1].status = "ok" =>
              \A key \in DOMAIN loaded[1].data :
                 Len(loaded[1].data[key]) = Len(csv_file) - 1
        /\ Ragged(csv_file) => loaded[1].status # "ok"

\* a short data row is loaded into a table with columns of different lengths
C22_PartialTable ==
    /\ loaded # None
    /\ loaded[1].status = "ok"
    /\ csv_file = <<(<<Cell_a, Cell_1>>), (<<Cell_1, Cell_1>>), (<<Cell_1>>)>>
    /\ Len(loaded[1].data[Cell_a]) = 2
    /\ Len(loaded[1].data[Cell_1]) = 1

\* a long data row fails the load
C22_LongRow ==
    /\ loaded # None
    /\ csv_file = <<(<<Cell_a>>), (<<Cell_1, Cell_1>>)>>
    /\ loaded[1].status = "IndexError"

----------------------------------------------------------------------------
(* Cells that are no numbers *)

SpecCoerce == InitTable("index") /\ [][NextWiden]_vars

\* the charted cell of source row i cannot be converted
BadCell(i) == isnan(remove_non_numeric(SourceRows[i].y))

Triple(r) == <<RowUid(r), r.date, RowParams(r)>>

\* the cell of the output w for the triple t
CellAt(w, t) ==
    w.cols[CHOOSE c \in 1..Len(w.x_variables) : w.x_variables[c] = t[3]]
          [CHOOSE k \in 1..Len(w.uid) : w.uid[k] = t[1] /\ w.date[1][k] = t[2]]

\* the table without its source row i
Without(i) ==
    [data_dict EXCEPT !.rows = SubSeq(SourceRows, 1, i - 1)
                                  \o SubSeq(SourceRows, i + 1, Len(SourceRows))]

\* what the same call returns for the table without row i
WideWithout(i) ==
    widen_data(Without(i), call[1].args, NoClock(Len(SourceRows) - 1))

\* the source rows other than i that share the triple of row i
Sharing(i) ==
    {k \in 1..Len(SourceRows) : k # i /\ Triple(SourceRows[k]) = Triple(SourceRows[i])}

\* C23 as stated: the output cell of a bad cell is NaN, and the output cell
\* of every other source cell is what it is without the bad cell.
C23_BadCellAlone ==
    Imported =>
        \A i \in 1..Len(SourceRows) :
            BadCell(i) =>
               /\ isnan(CellAt(wide[1], Triple(SourceRows[i])))
               /\ \A k \in 1..Len(SourceRows) :
                     k # i => CellAt(wide[1], Triple(SourceRows[k]))
                                 = CellAt(WideWithout(i), Triple(SourceRows[k]))

\* C23: a cell that cannot be converted never aborts the reshape: the
\* coercion of every cell is a float or NaN, widen_data returns for every
\* table with rows, the output cell that only a bad cell feeds is NaN, the
\* output cell where it collides with other values is what the policy makes
\* of NaN and those values (NaN for mean, min and max; NaN or one of the
\* values for first and last), and every output cell the bad cell does not
\* feed has the value it has without the bad cell.
C23_LocalRecovery ==
    /\ \A i \in 1..Len(SourceRows) : IsFloat(apply_dtype(SourceRows[i].y, TRUE))
    /\ (call # None /\ SourceRows # <<>>) => wide[1].status = "ok"
    /\ Imported =>
          \A i \in 1..Len(SourceRows) :
              BadCell(i) =>
                 /\ Sharing(i) = {} => isnan(CellAt(wide[1], Triple(SourceRows[i])))
                 /\ (Sharing(i) # {} /\ call[1].args.policy \in {"mean", "min", "max"})
                       => isnan(CellAt(wide[1], Triple(SourceRows[i])))
                 /\ (Sharing(i) # {} /\ call[1].args.policy \in {"first", "last"})
                       => \/ isnan(CellAt(wide[1], Triple(SourceRows[i])))
                          \/ \E k \in Sharing(i) :
                                CellAt(wide[1], Triple(SourceRows[i]))
                                   = remove_non_numeric(SourceRows[k].y)
                 /\ \A k \in 1..Len(SourceRows) :
                       Triple(SourceRows[k]) # Triple(SourceRows[i])
                          => CellAt(wide[1], Triple(SourceRows[k]))
                                = CellAt(WideWithout(i), Triple(SourceRows[k]))

\* a bad cell alone in its output cell, next to a cell with a number
C23_Witness ==
    /\ Imported
    /\ Len(SourceRows) = 2
    /\ BadCell(1) /\ ~BadCell(2)
    /\ Triple(SourceRows[1]) # Triple(SourceRows[2])
    /\ isnan(CellAt(wide[1], Triple(SourceRows[1])))
    /\ CellAt(wide[1], Triple(SourceRows[2])) = Num(4)
    /\ CellAt(WideWithout(1), Triple(SourceRows[2])) = Num(4)

\* a bad cell that collides with a number under 'max': the merged cell is NaN
C23_WitnessCollision ==
    /\ Imported
    /\ call[1].args.policy = "max"
    /\ Len(SourceRows) = 2
    /\ BadCell(2) /\ ~BadCell(1)
    /\ Sharing(2) = {1}
    /\ isnan(CellAt(wide[1], Triple(SourceRows[1])))
    /\ CellAt(WideWithout(2), Triple(SourceRows[1])) = Num(2)

----------------------------------------------------------------------------
(* Templates: a JSON template file names its columns and, by position or   *)
(* by name, the columns of the analysis; CSVParser loads it.               *)

\* the references a template file may hold: positions (one of them past the
\* last column) and names (one of them no column)
Refs == {PyInt(0), PyInt(2), PyInt(4), Str("patient"), Str("y"), Str("dose")}

MaxUid == 2

\* first position of value in cols, counted from 1
get_indexOneBased(cols, value) ==
    IF ~IsStr(value) THEN Some(value)
    ELSE IF \A i \in 1..Len(cols) : cols[i] # value.str THEN None
    ELSE Some(PyInt(CHOOSE i \in 1..Len(cols) :
                       /\ cols[i] = value.str
                       /\ \A k \in 1..(i - 1) : cols[k] # value.str))

\* CSVParser.get_index: Some(result), or None when columns.index(value)
\* raises ValueError
get_index(cols, value) ==
    IF ~IsStr(value) THEN Some(value)
    ELSE IF \A i \in 1..Len(cols) : cols[i] # value.str THEN None
    ELSE Some(PyInt((CHOOSE i \in 1..Len(cols) :
                        /\ cols[i] = value.str
                        /\ \A k \in 1..(i - 1) : cols[k] # value.str) - 1))

\* every reference of analysis_columns, in the order set_values_to_index
\* visits them
References(ac) ==
    <<ac.date>> \o ac.uid \o ac.criteria \o [i \in 1..Len(ac.y) |-> ac.y[i].index]

\* CSVParser.set_values_to_index
set_values_to_index(cols, ac) ==
    [date     |-> get_index(cols, ac.date)[1],
     uid      |-> [i \in 1..Len(ac.uid) |-> get_index(cols, ac.uid[i])[1]],
     criteria |-> [i \in 1..Len(ac.criteria) |-> get_index(cols, ac.criteria[i])[1]],
     y        |-> [i \in 1..Len(ac.y) |->
                     [ac.y[i] EXCEPT !.index = get_index(cols, ac.y[i].index)[1]]]]

\* CSVParser.__init__ on the parsed file
CSVParser(parser) ==
    IF \E i \in 1..Len(References(parser.analysis_columns)) :
          get_index(parser.columns, References(parser.analysis_columns)[i]) = None
    THEN [status |-> "ValueError"]
    ELSE [status |-> "ok",
          columns |-> parser.columns,
          analysis_columns |-> set_values_to_index(parser.columns,
                                                   parser.analysis_columns)]

\* template files over the columns of the report
Schemas ==
    {[columns |-> columns,
      analysis_columns |->
         [date |-> d, uid |-> u, criteria |-> <<c>>,
          y |-> <<[index |-> y, ucl_limit |-> Some(Num(3)), lcl_limit |-> None]>>]] :
        d \in Refs, c \in Refs, y \in Refs,
        u \in UNION {[1..n -> Refs] : n \in 1..MaxUid}}

\* json.load of a template file
json_load ==
    /\ schema = None /\ template = None
    /\ \E parser \in Schemas : schema' = Some(parser)
    /\ UNCHANGED <<cc, cdata, data_table, control_chart_data, selected, tableVars,
                   lookup, csv_file, loaded, template, template_file, reloaded,
                   templates_dir, dir_before>>

\* import_csv_templates: parsers[key] = CSVParser(file); an exception is
\* logged and the key stays without a template
load_template ==
    /\ schema # None /\ template = None
    /\ template' = Some(CSVParser(schema[1]))
    /\ UNCHANGED <<cc, cdata, data_table, control_chart_data, selected, tableVars,
                   lookup, csv_file, loaded, schema, template_file, reloaded,
                   templates_dir, dir_before>>

NextTemplate == json_load \/ load_template

SpecTemplate == InitTable("template file") /\ [][NextTemplate]_vars

\* the name value is one of the columns
Names(value) == \E i \in 1..Len(schema[1].columns) : schema[1].columns[i] = value.str

\* value resolved as the claim says: itself, or its position counted from 0
Resolves(value, index) ==
    IF IsInt(value) THEN index = value
    ELSE /\ IsInt(index)
         /\ index.int \in 0..(Len(schema[1].columns) - 1)
         /\ schema[1].columns[index.int + 1] = value.str
         /\ \A k \in 1..index.int : schema[1].columns[k] # value.str

\* C24: get_index returns an integer unchanged and the position in columns
\* of a string that names a column; a string that names no column fails the
\* load, and no template object is produced.
C24_GetIndex ==
    template # None =>
        LET ac == schema[1].analysis_columns
            before == References(ac)
        IN IF \E i \in 1..Len(before) : IsStr(before[i]) /\ ~Names(before[i])
           THEN /\ template[1].status = "ValueError"
                /\ "columns" \notin DOMAIN template[1]
           ELSE /\ template[1].status = "ok"
                /\ Len(References(template[1].analysis_columns)) = Len(before)
                /\ \A i \in 1..Len(before) :
                      Resolves(before[i], References(template[1].analysis_columns)[i])

\* a file that mixes positions and names is loaded, the name 'y' resolved
\* to 3 and the position 2 kept
C24_Witness ==
    /\ template # None
    /\ template[1].status = "ok"
    /\ schema[1].analysis_columns.y[1].index = Str("y")
    /\ template[1].analysis_columns.y[1].index = PyInt(3)
    /\ schema[1].analysis_columns.criteria = <<PyInt(2)>>
    /\ template[1].analysis_columns.criteria = <<PyInt(2)>>

\* a file with the name of no column gives no template
C24_WitnessUnknown ==
    /\ template # None
    /\ schema[1].analysis_columns.date = Str("dose")
    /\ template[1].status = "ValueError"

\* C25: after a template is loaded from its file, the date index, every uid
\* entry, every criteria entry and every y index of analysis_columns is an
\* integer that is a position in columns.
C25_ValidIndices ==
    (template # None /\ template[1].status = "ok") =>
        \A i \in 1..Len(References(template[1].analysis_columns)) :
            LET index == References(template[1].analysis_columns)[i]
            IN /\ IsInt(index)
               /\ index.int \in 0..(Len(template[1].columns) - 1)

\* a file whose date reference is the position 4 of four columns is loaded
\* as it is
C25_PastTheEnd ==
    /\ template # None
    /\ template[1].status = "ok"
    /\ Len(template[1].columns) = 4
    /\ template[1].analysis_columns.date = PyInt(4)

----------------------------------------------------------------------------
(* Writing a template: create_csv_template dumps columns and               *)
(* analysis_columns of a parser as JSON, and CSVParser loads the file.     *)
(* A JSON value is its token: a number with its digits, a string with its  *)
(* text, or null.                                                          *)

\* json.dumps of an int, a str, None or an integral limit; limit says the
\* value is a limit
json_dumps(v, limit) ==
    IF limit
    THEN IF v = None THEN [tok |-> "null"]
         ELSE [tok |-> "number", text |-> IntStr(v[1].n)]
    ELSE IF IsInt(v) THEN [tok |-> "number", text |-> IntStr(v.int)]
    ELSE [tok |-> "string", text |-> v.str]

\* a reader that takes every number for the next one
json_loadsNextNumber(t, limit) ==
    IF t.tok = "null" THEN None
    ELSE IF t.tok = "string" THEN Str(t.text)
    ELSE IF limit THEN Some(Num(DigitsVal(t.text) + 1))
    ELSE PyInt(DigitsVal(t.text) + 1)

\* json.loads of one token; limit says the value is read as a limit
json_loads(t, limit) ==
    IF t.tok = "null" THEN None
    ELSE IF t.tok = "string" THEN Str(t.text)
    ELSE IF limit THEN Some(Num(DigitsVal(t.text)))
    ELSE PyInt(DigitsVal(t.text))

\* json.dumps(data) for data = {"columns": ..., "analysis_columns": ...}
dump_template(parser) ==
    [columns |-> [i \in 1..Len(parser.columns) |-> json_dumps(Str(parser.columns[i]), FALSE)],
     analysis_columns |->
        [date     |-> json_dumps(parser.analysis_columns.date, FALSE),
         uid      |-> [i \in 1..Len(parser.analysis_columns.uid) |->
                          json_dumps(parser.analysis_columns.uid[i], FALSE)],
         criteria |-> [i \in 1..Len(parser.analysis_columns.criteria) |->
                          json_dumps(parser.analysis_columns.criteria[i], FALSE)],
         y        |-> [i \in 1..Len(parser.analysis_columns.y) |->
                          [index     |-> json_dumps(parser.analysis_columns.y[i].index, FALSE),
                           ucl_limit |-> json_dumps(parser.analysis_columns.y[i].ucl_limit, TRUE),
                           lcl_limit |-> json_dumps(parser.analysis_columns.y[i].lcl_limit, TRUE)]]]]

\* json.load of the file
load_file(file) ==
    [columns |-> [i \in 1..Len(file.columns) |-> json_loads(file.columns[i], FALSE).str],
     analysis_columns |->
        [date     |-> json_loads(file.analysis_columns.date, FALSE),
         uid      |-> [i \in 1..Len(file.analysis_columns.uid) |->
                          json_loads(file.analysis_columns.uid[i], FALSE)],
         criteria |-> [i \in 1..Len(file.analysis_columns.criteria) |->
                          json_loads(file.analysis_columns.criteria[i], FALSE)],
         y        |-> [i \in 1..Len(file.analysis_columns.y) |->
                          [index     |-> json_loads(file.analysis_columns.y[i].index, FALSE),
                           ucl_limit |-> json_loads(file.analysis_columns.y[i].ucl_limit, TRUE),
                           lcl_limit |-> json_loads(file.analysis_columns.y[i].lcl_limit, TRUE)]]]]

\* a parser of the IQDMPDF package: its references are positions or names of
\* its columns
builtin_parser ==
    /\ schema = None /\ template = None
    /\ \E parser \in Schemas :
          /\ \A i \in 1..Len(References(parser.analysis_columns)) :
                get_index(parser.columns, References(parser.analysis_columns)[i]) # None
          /\ template' = Some([status |-> "ok", columns |-> parser.columns,
                               analysis_columns |-> parser.analysis_columns])
    /\ UNCHANGED <<cc, cdata, data_table, control_chart_data, selected, tableVars,
                   lookup, csv_file, loaded, schema, template_file, reloaded,
                   templates_dir, dir_before>>

\* create_csv_template(parser) for a parser in memory
create_csv_template ==
    /\ template # None /\ template[1].status = "ok"
    /\ template_file = None
    /\ template_file' = Some(dump_template(template[1]))
    /\ UNCHANGED <<cc, cdata, data_table, control_chart_data, selected, tableVars,
                   lookup, csv_file, loaded, schema, template, reloaded,
                   templates_dir, dir_before>>

\* CSVParser(file) for the file written
reload_template ==
    /\ template_file # None /\ reloaded = None
    /\ reloaded' = Some(CSVParser(load_file(template_file[1])))
    /\ UNCHANGED <<cc, cdata, data_table, control_chart_data, selected, tableVars,
                   lookup, csv_file, loaded, schema, template, template_file,
                   templates_dir, dir_before>>

NextRoundTrip ==
    json_load \/ load_template \/ builtin_parser \/ create_csv_template
       \/ reload_template

SpecRoundTrip == InitTable("template file") /\ [][NextRoundTrip]_vars

\* the position the parser in memory means by entry i of its references
Meant(i) ==
    LET value == References(template[1].analysis_columns)[i]
    IN IF IsInt(value) THEN value
       ELSE PyInt((CHOOSE k \in 1..Len(template[1].columns) :
                      /\ template[1].columns[k] = value.str
                      /\ \A j \in 1..(k - 1) : template[1].columns[j] # value.str) - 1)

\* C26: a template written to its JSON file and loaded again has the same
\* integer indices (date, uid, criteria, y) as the parser in memory, whether
\* that parser held integers or column names.
C26_RoundTrip ==
    reloaded # None =>
        /\ reloaded[1].status = "ok"
        /\ reloaded[1].columns = template[1].columns
        /\ Len(References(reloaded[1].analysis_columns))
              = Len(References(template[1].analysis_columns))
        /\ \A i \in 1..Len(References(template[1].analysis_columns)) :
              References(reloaded[1].analysis_columns)[i] = Meant(i)
        /\ \A i \in 1..Len(template[1].analysis_columns.y) :
              /\ reloaded[1].analysis_columns.y[i].ucl_limit
                    = template[1].analysis_columns.y[i].ucl_limit
              /\ reloaded[1].analysis_columns.y[i].lcl_limit
                    = template[1].analysis_columns.y[i].lcl_limit

\* a parser in memory that names its columns comes back with their positions
C26_Witness ==
    /\ reloaded # None
    /\ template[1].analysis_columns.date = Str("y")
    /\ template[1].analysis_columns.uid = <<Str("patient"), PyInt(2)>>
    /\ reloaded[1].analysis_columns.date = PyInt(3)
    /\ reloaded[1].analysis_columns.uid = <<PyInt(0), PyInt(2)>>

\* a parser loaded from a file, holding integers, comes back as it is
C26_WitnessIntegers ==
    /\ reloaded # None
    /\ schema # None
    /\ schema[1].analysis_columns.date = Str("y")
    /\ template[1].analysis_columns.date = PyInt(3)
    /\ reloaded[1].analysis_columns = template[1].analysis_columns

----------------------------------------------------------------------------
(* Materializing the built-in templates: create_default_parsers writes the *)
(* templates of the built-in parsers that have no file and then copies the *)
(* files of the resources directory that have none.                        *)

\* DEFAULT_PARSERS, in the order of the dict
DefaultKeys == <<"Delta4", "VeriSoft">>

\* f"{key}.json"
JsonFile(key) == IF key = "Delta4" THEN "Delta4.json" ELSE "VeriSoft.json"

\* parser().report_type of the built-in parser stored under key: the
\* parsers of the IQDMPDF package carry their key as report type
report_type(key) == key

\* listdir(DEFAULT_CSV_TEMPLATES_DIR)
ResourceFiles == {"Delta4.json", "Custom.json"}

isfile(dir, name) == dir[name] # "absent"

\* one round of the loop with the test of isfile left out
create_if_missingAlways(dir, key) ==
    [dir EXCEPT ![JsonFile(report_type(key))] = "built-in"]

\* one round of the loop of create_default_parsers: create_csv_template
\* opens f"{report_type}.json" for writing
create_if_missing(dir, key) ==
    IF ~isfile(dir, JsonFile(key))
    THEN [dir EXCEPT ![JsonFile(report_type(key))] = "built-in"]
    ELSE dir

RECURSIVE create_all(_, _)
create_all(dir, keys) ==
    IF keys = <<>> THEN dir
    ELSE create_all(create_if_missing(dir, Head(keys)), Tail(keys))

\* copy_default_csv_templates: existing_templates is listed once
copy_default_csv_templates(dir) ==
    [name \in DOMAIN dir |->
        IF name \in ResourceFiles /\ ~isfile(dir, name) THEN "resource" ELSE dir[name]]

\* the user writes, edits or deletes a file of the directory
user_file ==
    /\ \E name \in FileNames, content \in {"absent", "user", "edited"} :
          /\ templates_dir[name] # content
          /\ templates_dir' = [templates_dir EXCEPT ![name] = content]
    /\ dir_before' = None
    /\ UNCHANGED <<cc, cdata, data_table, control_chart_data, selected, tableVars,
                   lookup, csv_file, loaded, schema, template, template_file,
                   reloaded>>

\* create_default_parsers()
create_default_parsers ==
    /\ dir_before = None
    /\ dir_before' = Some(templates_dir)
    /\ templates_dir' = copy_default_csv_templates(create_all(templates_dir, DefaultKeys))
    /\ UNCHANGED <<cc, cdata, data_table, control_chart_data, selected, tableVars,
                   lookup, csv_file, loaded, schema, template, template_file,
                   reloaded>>

NextMaterialize == user_file \/ create_default_parsers

SpecMaterialize == InitTable("templates") /\ [][NextMaterialize]_vars

----------------------------------------------------------------------------
(* Inputs and shared state of the core computations.                       *)

\* C28: widen_data leaves its input table as it was and reading a property
\* of a ControlChart leaves the chart as it was, so a call returns the same
\* result whether it runs alone or repeatedly: a second call of the same
\* importer on the same table returns what the first returned.
C28_SameResult ==
    (Len(wide) = 2 /\ call[2].uid_col = call[1].uid_col /\ call[2].args = call[1].args)
        => wide[2] = wide[1]

\* two calls of one importer on one table whose results differ
C28_Repeated ==
    /\ Len(wide) = 2
    /\ call[2].uid_col = call[1].uid_col /\ call[2].args = call[1].args
    /\ wide[1].status = "ok" /\ wide[2].status = "ok"
    /\ wide[2] # wide[1]

\* the part of C28 that holds of the reshaper: no call changes the table
C28_TableKept == [][call' # call => data_dict' = data_dict]_vars

\* the part of C28 that holds of the chart: reading chart_data changes no
\* field of the chart
C28_ChartKept == [][(cdata = None /\ cdata' # None) => cc' = cc]_vars

----------------------------------------------------------------------------
(* The limits and the centre line.                                         *)

\* at least two values of the window are numbers
TwoValues(self) == Len(remove_nan(y_ranged(self))) >= 2

\* C29 as stated: for a window with at least two non-NaN values, every
\* std >= 0 and every combination of ucl_limit and lcl_limit, the limits
\* bracket the centre line: lcl <= center_line <= ucl.
C29_Bracket ==
    (TwoValues(cc) /\ ~Lt(cc.std, Num(0))) =>
        /\ Le(control_limits(cc)[1], center_line(cc))
        /\ Le(center_line(cc), control_limits(cc)[2])

\* C29, amended: for a window with at least two non-NaN values and std >= 0,
\* lcl <= center_line unless lcl_limit is given above the centre line, and
\* then lcl is lcl_limit; center_line <= ucl unless ucl_limit is given below
\* the centre line, and then ucl is ucl_limit.
C29_BracketOrClamp ==
    (TwoValues(cc) /\ ~Lt(cc.std, Num(0))) =>
        /\ IF cc.lcl_limit # None /\ Gt(cc.lcl_limit[1], center_line(cc))
           THEN control_limits(cc)[1] = cc.lcl_limit[1]
           ELSE Le(control_limits(cc)[1], center_line(cc))
        /\ IF cc.ucl_limit # None /\ Lt(cc.ucl_limit[1], center_line(cc))
           THEN control_limits(cc)[2] = cc.ucl_limit[1]
           ELSE Le(center_line(cc), control_limits(cc)[2])
        /\ cdata # None =>
              /\ cdata[1].lcl = control_limits(cc)[1]
              /\ cdata[1].ucl = control_limits(cc)[2]
              /\ cdata[1].center_line = center_line(cc)

\* chart_data read from a chart whose ucl_limit lies below the centre line:
\* the UCL is the limit, below the centre line, and the LCL is below both
C29_Witness ==
    /\ cdata # None
    /\ TwoValues(cc) /\ Gt(cc.std, Num(0))
    /\ cc.ucl_limit # None /\ Lt(cc.ucl_limit[1], cdata[1].center_line)
    /\ cdata[1].ucl = cc.ucl_limit[1]
    /\ Lt(cdata[1].lcl, cdata[1].ucl)

\* chart_data read from a chart with both limits given, neither across the
\* centre line, and the UCL clamped: the limits bracket the centre line
C29_WitnessBracket ==
    /\ cdata # None
    /\ TwoValues(cc) /\ Gt(cc.std, Num(0))
    /\ cc.ucl_limit # None /\ cc.lcl_limit # None
    /\ cdata[1].ucl = cc.ucl_limit[1]
    /\ Lt(cdata[1].lcl, cdata[1].center_line)
    /\ Lt(cdata[1].center_line, cdata[1].ucl)

----------------------------------------------------------------------------
(* Windows with fewer than two values.                                     *)

\* MainFrame.update_chart_data: the limits handed to the plot, a NaN limit
\* replaced by the centre line
plot_limits(self) ==
    <<IF isnan(control_limits(self)[1]) THEN center_line(self) ELSE control_limits(self)[1],
      IF isnan(control_limits(self)[2]) THEN center_line(self) ELSE control_limits(self)[2]>>

\* the values of the window that are numbers
WindowValues(self) == remove_nan(y_ranged(self))

\* C30: when the window holds fewer than two non-NaN values (empty window,
\* all NaN, or a single value) every property of the chart has a value:
\* center_line is NaN for no value and the value itself for one, sigma and
\* both control limits are NaN whatever ucl_limit and lcl_limit are, and
\* out_of_control is empty; the plot gets the centre line for both limits.
C30_FewValues ==
    Len(WindowValues(cc)) < 2 =>
        /\ IF Len(WindowValues(cc)) = 0 THEN isnan(center_line(cc))
           ELSE center_line(cc) = WindowValues(cc)[1]
        /\ WindowStated(cc) =>
              /\ Cardinality(ValidIdx(cc)) < 2
              /\ \A i \in ValidIdx(cc) : center_line(cc) = cc.y[i]
        /\ isnan(sigma(cc))
        /\ isnan(control_limits(cc)[1]) /\ isnan(control_limits(cc)[2])
        /\ out_of_control(cc) = <<>>
        /\ plot_limits(cc) = <<center_line(cc), center_line(cc)>>
        /\ cdata # None =>
              /\ cdata[1].center_line = center_line(cc)
              /\ isnan(cdata[1].lcl) /\ isnan(cdata[1].ucl)
              /\ cdata[1].out_of_control = <<>>
              /\ cdata[1].y = y_ranged(cc)

\* chart_data read from a window with one number beside a NaN and both
\* limits given: the centre line is the number, the limits are NaN
C30_Witness ==
    /\ cdata # None
    /\ Len(cdata[1].y) = 2
    /\ Len(WindowValues(cc)) = 1
    /\ cc.ucl_limit # None /\ cc.lcl_limit # None
    /\ cdata[1].center_line = Num(100)
    /\ isnan(cdata[1].lcl) /\ isnan(cdata[1].ucl)
    /\ cdata[1].out_of_control = <<>>

\* chart_data read from an empty window of a series with values
C30_WitnessEmpty ==
    /\ cdata # None
    /\ cdata[1].y = <<>> /\ Len(cc.y) = 3
    /\ isnan(cdata[1].center_line) /\ isnan(cdata[1].ucl)

\* chart_data read from a window of NaN only
C30_WitnessAllNaN ==
    /\ cdata # None
    /\ cdata[1].y = <<NaN, NaN>>
    /\ isnan(cdata[1].center_line) /\ isnan(cdata[1].lcl)

====
